---- MODULE Spec2Model ----
(***************************************************************************)
(* Model of the IAM least-privilege pipeline core:                         *)
(*   core/aggregator/actions.py  ActionAggregator                          *)
(*   core/models.py              EventModel, ActionRecord, PolicyStatement *)
(*   core/aggregator/conditions.py ConditionReducer                        *)
(*   core/policy/generator.py    PolicyGenerator                           *)
(*   core/inference/arn_rules.py ArnRuleRegistry                           *)
(*   core/policy/simulator.py    PolicySimulator                           *)
(*   core/policy/diff.py         PolicyDiff                                *)
(*   cli/main.py                 _cmd_diff                                 *)
(*   core/allowlist.py           load_allowlist                            *)
(*   cli/output.py               emit                                      *)
(* Python str values are TLA+ strings; list and tuple values are           *)
(* sequences; None is modelled by the value None below.                    *)
(***************************************************************************)
EXTENDS Integers, Sequences, FiniteSets, TLC

VARIABLES
    agg,          \* the ActionAggregator instance (fields set by __init__)
    events,       \* the events the iterable has yielded so far, in order
    states,       \* aggregate's local dict states, in insertion order
    agg_pc,       \* position inside aggregate: "fold" (in the loop) or "done"
    records,      \* the list aggregate returned
    raised,       \* TRUE iff aggregate propagated an exception
    upsert_calls, \* the update_item calls attempted on the table, in order
    table_items,  \* the keys whose update_item call succeeded
    gen,          \* the PolicyGenerator instance, additional_policies included
    gen_in,       \* the records handed to build
    gen_pc,       \* "ready" before build is called, "done" after it
    gen_out,      \* the PolicyDoc build returned
    gen_raised,   \* TRUE iff build propagated an exception
    gen_calls,    \* the number of build calls made on the generator
    gen_before,   \* additional_policies as the last build call found it
    sid_in,       \* the arguments (service, counter) of _build_sid
    sid_out,      \* the statement id _build_sid returned
    sid_pc,       \* "ready" before _build_sid is called, "done" after it
    sim,          \* the PolicySimulator instance: its _client
    sim_in,       \* the arguments of compare: before, after, cases
    sim_pc,       \* "ready" before compare is called, "done" after it
    sim_out,      \* the list of rows compare returned
    sim_calls,    \* the simulate_custom_policy calls made, in order
    sim_raised,   \* TRUE iff compare propagated an exception
    diff,         \* the PolicyDiff instance: before and after
    diff_pc,      \* "ready" before the metrics are read, "done" after it
    diff_out,     \* the metrics read from the PolicyDiff
    cond_in,      \* the list of condition maps handed to merge
    cond_pc,      \* "ready" before merge is called, "done" after it
    cond_out,     \* the condition map merge returned
    arn,          \* the ArnRuleRegistry instance: its service_rules
    arn_in,       \* the event handed to infer
    arn_pc,       \* "ready" before infer is called, "done" after it
    arn_out,      \* the set of identifiers infer returned
    cli_in,       \* the arguments of the diff command: before, after, cases, deny_threshold, and whether boto3 could be imported
    cli_pc,       \* "ready" before the command runs, "emitted" after output.emit, "done" after it returned
    cli_report,   \* the payloads written to the output so far
    cli_denies,   \* before_denies and after_denies of the running command
    cli_exit      \* None until the command returned, then its exit code

aggVars == <<agg, events, states, agg_pc, records, raised, upsert_calls, table_items>>

genVars == <<gen, gen_in, gen_pc, gen_out, gen_raised, gen_calls, gen_before>>

sidVars == <<sid_in, sid_out, sid_pc>>

simVars == <<sim, sim_in, sim_pc, sim_out, sim_calls, sim_raised>>

diffVars == <<diff, diff_pc, diff_out>>

condVars == <<cond_in, cond_pc, cond_out>>

arnVars == <<arn, arn_in, arn_pc, arn_out>>

cliVars == <<cli_in, cli_pc, cli_report, cli_denies, cli_exit>>

vars == <<aggVars, genVars, sidVars, simVars, diffVars, condVars, arnVars, cliVars>>

(***************************************************************************)
(* Python values                                                           *)
(***************************************************************************)
\* Optional[...] = None.  A datetime is a positive integer (seconds), so 0
\* never collides with a timestamp.
None == 0

\* The printable ASCII characters in code-point order: chr(32)..chr(95) and
\* chr(97)..chr(126) (a TLA+ string cannot hold chr(96)).
AsciiLow == " !\"#$%&'()*+,-./0123456789:;<=>?@ABCDEFGHIJKLMNOPQRSTUVWXYZ[\\]^_"

AsciiHigh == "abcdefghijklmnopqrstuvwxyz{|}~"

\* The code point of each printable ASCII character.
CodePoint ==
    [c \in {SubSeq(AsciiLow, i, i) : i \in 1..Len(AsciiLow)} \cup
           {SubSeq(AsciiHigh, i, i) : i \in 1..Len(AsciiHigh)} |->
        IF \E i \in 1..Len(AsciiLow) : SubSeq(AsciiLow, i, i) = c
        THEN 31 + (CHOOSE i \in 1..Len(AsciiLow) : SubSeq(AsciiLow, i, i) = c)
        ELSE 96 + (CHOOSE i \in 1..Len(AsciiHigh) : SubSeq(AsciiHigh, i, i) = c)]

\* ord(c) for a one-character string.
Ord(c) == CodePoint[c]

\* sub in s, for str.
RECURSIVE StrContains(_, _)
StrContains(s, sub) ==
    IF Len(sub) > Len(s) THEN FALSE
    ELSE IF SubSeq(s, 1, Len(sub)) = sub THEN TRUE
    ELSE StrContains(Tail(s), sub)

\* a < b for str: lexicographic by code point.
RECURSIVE StrLess(_, _)
StrLess(a, b) ==
    IF b = "" THEN FALSE
    ELSE IF a = "" THEN TRUE
    ELSE IF Head(a) = Head(b) THEN StrLess(Tail(a), Tail(b))
    ELSE Ord(Head(a)) < Ord(Head(b))

\* a < b for tuples of str: lexicographic, a proper prefix is smaller.
RECURSIVE TupleLess(_, _)
TupleLess(a, b) ==
    IF b = <<>> THEN FALSE
    ELSE IF a = <<>> THEN TRUE
    ELSE IF Head(a) = Head(b) THEN TupleLess(Tail(a), Tail(b))
    ELSE StrLess(Head(a), Head(b))

\* fnmatch.fnmatch(name, pat) on POSIX (no case folding), for patterns made
\* of literals, * and ?.
RECURSIVE fnmatch(_, _)
fnmatch(name, pat) ==
    IF pat = "" THEN name = ""
    ELSE IF Head(pat) = "*"
         THEN fnmatch(name, Tail(pat)) \/ (name # "" /\ fnmatch(Tail(name), pat))
    ELSE /\ name # ""
         /\ (Head(pat) = "?" \/ Head(pat) = Head(name))
         /\ fnmatch(Tail(name), Tail(pat))

\* re.compile(pattern).search(s) is not None, for patterns made of literal
\* characters with an optional leading ^ and an optional trailing $.
re_search(pattern, s) ==
    LET anchored_start == pattern # "" /\ Head(pattern) = "^"
        p1 == IF anchored_start THEN Tail(pattern) ELSE pattern
        anchored_end == p1 # "" /\ SubSeq(p1, Len(p1), Len(p1)) = "$"
        body == IF anchored_end THEN SubSeq(p1, 1, Len(p1) - 1) ELSE p1
        n == Len(body)
    IN  \E i \in 1..(Len(s) - n + 1) :
            /\ SubSeq(s, i, i + n - 1) = body
            /\ (anchored_start => i = 1)
            /\ (anchored_end => i + n - 1 = Len(s))

(***************************************************************************)
(* core/models.py                                                          *)
(***************************************************************************)
\* EventModel(**data): pydantic keeps the declared fields and ignores any
\* other key of the input, such as a conditions entry.
EventModel(data) ==
    [ event_time    |-> data.event_time,
      principal_arn |-> data.principal_arn,
      aws_service   |-> data.aws_service,
      action        |-> data.action,
      resource_arns |-> data.resource_arns ]

\* ActionRecord(principal_arn=..., service=..., action=...) with the defaults.
ActionRecord(principal_arn, service, action) ==
    [ principal_arn |-> principal_arn,
      service       |-> service,
      action        |-> action,
      count         |-> 0,
      resources     |-> <<>>,
      conditions    |-> <<>>,
      last_seen     |-> None ]

\* The loop of register without the test `resource not in self.resources`.
RECURSIVE register_resources_unchecked(_, _)
register_resources_unchecked(resources, arns) ==
    IF arns = <<>> THEN resources
    ELSE register_resources_unchecked(Append(resources, Head(arns)), Tail(arns))

\* The loop of register over event.resource_arns.
RECURSIVE register_resources(_, _)
register_resources(resources, arns) ==
    IF arns = <<>> THEN resources
    ELSE register_resources(
             IF \E i \in DOMAIN resources : resources[i] = Head(arns)
             THEN resources
             ELSE Append(resources, Head(arns)),
             Tail(arns))

\* register with the comparison against last_seen left out.
register_overwrite(record, event) ==
    [ record EXCEPT
        !.count = record.count + 1,
        !.last_seen = event.event_time,
        !.resources = register_resources(record.resources, event.resource_arns) ]

\* ActionRecord.register(event): the record after the call.
register(record, event) ==
    [ record EXCEPT
        !.count = record.count + 1,
        !.last_seen =
            IF record.last_seen = None \/ event.event_time > record.last_seen
            THEN event.event_time
            ELSE record.last_seen,
        !.resources = register_resources(record.resources, event.resource_arns) ]

(***************************************************************************)
(* core/aggregator/actions.py                                              *)
(***************************************************************************)
\* ActionAggregator.__init__ with list-valued pattern arguments.
ActionAggregator(args) ==
    [ principal_pattern       |-> args.principal_filter,
      exclude_patterns        |-> args.exclude_actions,
      allow_patterns          |-> args.allow_actions,
      allow_principals        |-> args.allow_principals,
      allow_resource_patterns |-> args.allow_resources,
      min_count               |-> IF args.min_count > 1 THEN args.min_count ELSE 1,
      table                   |-> args.dynamodb_table ]

_include_principal(self, principal) ==
    IF self.principal_pattern = "" THEN TRUE
    ELSE re_search(self.principal_pattern, principal)

\* _normalize_action without the service prefix added.
_normalize_action_unprefixed(event) == event.action

_normalize_action(event) ==
    IF StrContains(event.action, ":") THEN event.action
    ELSE event.aws_service \o ":" \o event.action

_is_excluded(self, action) ==
    \E i \in DOMAIN self.exclude_patterns : fnmatch(action, self.exclude_patterns[i])

\* _is_allowlisted without the loop over allow_resource_patterns.
_is_allowlisted_no_resources(self, action, principal, resources) ==
    \/ \E i \in DOMAIN self.allow_patterns : fnmatch(action, self.allow_patterns[i])
    \/ \E i \in DOMAIN self.allow_principals : fnmatch(principal, self.allow_principals[i])

_is_allowlisted(self, action, principal, resources) ==
    \/ \E i \in DOMAIN self.allow_patterns : fnmatch(action, self.allow_patterns[i])
    \/ \E i \in DOMAIN self.allow_principals : fnmatch(principal, self.allow_principals[i])
    \/ \E i \in DOMAIN self.allow_resource_patterns :
          \E j \in DOMAIN resources : fnmatch(resources[j], self.allow_resource_patterns[i])

\* The key of a record, as used for the dict and for the sort.
record_key(rec) == <<rec.principal_arn, rec.service, rec.action>>

\* One iteration of the loop of aggregate over the events: the dict states
\* after the iteration.
aggregate_loop_body(self, sts, event) ==
    IF ~_include_principal(self, event.principal_arn) THEN sts
    ELSE
    LET action_name == _normalize_action(event)
    IN  IF _is_excluded(self, action_name) THEN sts
        ELSE
        LET key == <<event.principal_arn, event.aws_service, action_name>>
            hit == {i \in DOMAIN sts : record_key(sts[i]) = key}
        IN  IF hit = {}
            THEN Append(sts, register(
                     ActionRecord(event.principal_arn, event.aws_service, action_name),
                     event))
            ELSE LET i == CHOOSE j \in hit : TRUE
                 IN  [sts EXCEPT ![i] = register(sts[i], event)]

\* The list comprehension of aggregate: the records kept, in dict order.
aggregate_select(self, sts) ==
    SelectSeq(sts, LAMBDA rec :
        /\ rec.count >= self.min_count
        /\ ~_is_allowlisted(self, rec.action, rec.principal_arn, rec.resources))

\* Insert rec into the sorted list after every element whose key is
\* not greater (list.sort is stable).
RECURSIVE sort_insert(_, _)
sort_insert(sorted, rec) ==
    IF sorted = <<>> THEN <<rec>>
    ELSE IF TupleLess(record_key(rec), record_key(Head(sorted)))
         THEN <<rec>> \o sorted
         ELSE <<Head(sorted)>> \o sort_insert(Tail(sorted), rec)

\* aggregate without the records.sort call.
sort_records_unsorted(recs) == recs

\* records.sort(key=lambda rec: (rec.principal_arn, rec.service, rec.action))
RECURSIVE sort_records(_)
sort_records(recs) ==
    IF recs = <<>> THEN <<>>
    ELSE sort_insert(sort_records(SubSeq(recs, 1, Len(recs) - 1)), recs[Len(recs)])

\* The key an update_item call is made with.
upsert_key(rec) ==
    [ principal_arn |-> rec.principal_arn,
      service_action |-> rec.service \o "#" \o rec.action ]

\* _upsert without the try/except: the first failing call ends the loop and
\* the exception leaves _upsert.
_upsert_uncaught(recs, fails) ==
    LET stop == IF fails = {} THEN Len(recs)
                ELSE CHOOSE i \in fails : \A j \in fails : i <= j
    IN  [ calls  |-> [i \in 1..stop |-> upsert_key(recs[i])],
          items  |-> {upsert_key(recs[i]) : i \in (1..stop) \ fails},
          raised |-> fails # {} ]

\* ActionAggregator._upsert(records), where fails is the set of positions
\* whose update_item call raises: the calls attempted in order, the items
\* written, and whether an exception leaves _upsert.
_upsert(recs, fails) ==
    [ calls  |-> [i \in DOMAIN recs |-> upsert_key(recs[i])],
      items  |-> {upsert_key(recs[i]) : i \in DOMAIN recs \ fails},
      raised |-> FALSE ]

\* The part of aggregate after the loop.
aggregate_finish(self, sts, fails) ==
    LET recs == sort_records(aggregate_select(self, sts))
        up == IF self.table /\ recs # <<>>
              THEN _upsert(recs, fails)
              ELSE [calls |-> <<>>, items |-> {}, raised |-> FALSE]
    IN  [ records |-> IF up.raised THEN <<>> ELSE recs,
          calls   |-> up.calls,
          items   |-> up.items,
          raised  |-> up.raised ]

\* The whole fold of aggregate over a list of events.
RECURSIVE aggregate_fold(_, _)
aggregate_fold(self, evs) ==
    IF evs = <<>> THEN <<>>
    ELSE aggregate_loop_body(self,
             aggregate_fold(self, SubSeq(evs, 1, Len(evs) - 1)),
             EventModel(evs[Len(evs)]))

\* ActionAggregator.aggregate(events) when no update_item call raises.
aggregate(self, evs) == aggregate_finish(self, aggregate_fold(self, evs), {}).records

(***************************************************************************)
(* core/aggregator/conditions.py                                           *)
(* A condition map is a function from operator names to values.  A value   *)
(* is [kind |-> "str", items |-> <<s>>] for the str s,                     *)
(* [kind |-> "int", items |-> <<d>>] for the int with decimal numeral d,   *)
(* and                                                                     *)
(* [kind |-> "list", items |-> <<s1, ..., sn>>] for a list of str.         *)
(***************************************************************************)
StrValue(s) == [kind |-> "str", items |-> <<s>>]

IntValue(numeral) == [kind |-> "int", items |-> <<numeral>>]

ListValue(items) == [kind |-> "list", items |-> items]

\* The empty dict.
EmptyDict == [k \in {} |-> StrValue("")]

\* sorted(S) for a set of str.
RECURSIVE SortedStrings(_)
SortedStrings(S) ==
    IF S = {} THEN <<>>
    ELSE LET least == CHOOSE x \in S : \A y \in S : x = y \/ StrLess(x, y)
         IN  <<least>> \o SortedStrings(S \ {least})

\* The set of elements of a sequence.
Elements(seq) == {seq[i] : i \in DOMAIN seq}

\* ConditionReducer._combine_values(existing, new)
_combine_values(existing, new) ==
    IF existing.kind = "list" /\ new.kind = "list"
    THEN ListValue(SortedStrings(Elements(existing.items) \cup Elements(new.items)))
    ELSE IF existing.kind = "str" /\ new.kind = "str"
    THEN IF existing = new THEN existing
         ELSE ListValue(SortedStrings({existing.items[1], new.items[1]}))
    ELSE new

\* The inner loop of merge: one condition map folded into merged, its
\* operators taken in the order ops.
RECURSIVE merge_condition(_, _, _)
merge_condition(merged, condition, ops) ==
    IF ops = <<>> THEN merged
    ELSE LET operator == Head(ops)
             value == condition[operator]
             next == IF operator \notin DOMAIN merged
                     THEN [k \in DOMAIN merged \cup {operator} |->
                              IF k = operator THEN value ELSE merged[k]]
                     ELSE [merged EXCEPT ![operator] = _combine_values(merged[operator], value)]
         IN  merge_condition(next, condition, Tail(ops))

\* ConditionReducer.merge(conditions)
RECURSIVE merge(_)
merge(conditions) ==
    IF conditions = <<>> THEN EmptyDict
    ELSE LET last == conditions[Len(conditions)]
         IN  merge_condition(merge(SubSeq(conditions, 1, Len(conditions) - 1)),
                             last, SortedStrings(DOMAIN last))

(***************************************************************************)
(* core/inference/resource_level.py and core/inference/arn_rules.py        *)
(***************************************************************************)
\* The actions _DEFAULT_SUPPORT maps to True.
DefaultSupportTrue ==
    { "s3:GetObject", "s3:PutObject", "s3:DeleteObject", "s3:ListBucket",
      "dynamodb:PutItem", "dynamodb:GetItem", "dynamodb:DeleteItem",
      "dynamodb:Query", "dynamodb:Scan", "lambda:InvokeFunction",
      "sqs:SendMessage", "sqs:ReceiveMessage", "sqs:DeleteMessage",
      "sns:Publish", "kms:Decrypt", "kms:Encrypt",
      "secretsmanager:GetSecretValue", "ssm:GetParameter", "ssm:PutParameter",
      "ec2:StartInstances", "ec2:StopInstances" }

\* ResourceLevelIndex.allows_scoping(action) with the default table.
allows_scoping(action) == action \in DefaultSupportTrue

\* The services ArnRuleRegistry._register_defaults registers a rule for.
RegisteredServices ==
    {"s3", "dynamodb", "lambda", "sqs", "sns", "kms", "secretsmanager", "ssm", "ec2"}

\* ArnRuleRegistry.infer_from_record(record)
infer_from_record(record) ==
    IF record.resources # <<>> THEN Elements(record.resources) ELSE {}

\* The fields of an EventModel the extractors read.  request_parameters is
\* a function from parameter names to non-empty str values.
InferenceEvent(service, request_parameters, resource_arns) ==
    [ aws_service |-> service, region |-> "us-east-1", account_id |-> "123456789012",
      request_parameters |-> request_parameters, resource_arns |-> resource_arns ]

\* request_parameters.get(a) or request_parameters.get(b); "" when both are
\* missing.
get_either(request_parameters, a, b) ==
    IF a \in DOMAIN request_parameters THEN request_parameters[a]
    ELSE IF b \in DOMAIN request_parameters THEN request_parameters[b]
    ELSE ""

\* arns or {"*"}
or_star(arns) == IF arns # {} THEN arns ELSE {"*"}

\* infer_s3_arn(event)
infer_s3_arn(event) ==
    LET bucket == get_either(event.request_parameters, "bucketName", "Bucket")
        key == get_either(event.request_parameters, "key", "Key")
        arns == IF bucket = "" THEN {}
                ELSE IF key = "" THEN {"arn:aws:s3:::" \o bucket}
                ELSE {"arn:aws:s3:::" \o bucket \o "/" \o key, "arn:aws:s3:::" \o bucket}
    IN  or_star(arns \cup Elements(event.resource_arns))

\* infer_dynamodb_arn(event)
infer_dynamodb_arn(event) ==
    LET table == get_either(event.request_parameters, "tableName", "TableName")
    IN  IF table # ""
        THEN {"arn:aws:dynamodb:" \o event.region \o ":" \o event.account_id
                 \o ":table/" \o table}
        ELSE or_star(Elements(event.resource_arns))

\* An extractor registered by _register_defaults for a service.
DefaultExtractor(service) == [default_for |-> service, returns |-> {}]

\* An extractor registered by a caller: a function returning a fixed set.
FixedExtractor(arns) == [default_for |-> "", returns |-> arns]

\* extractor(event).  The default extractors of the services other than s3
\* and dynamodb are applied to events that carry none of their request
\* parameters, where each returns set(event.resource_arns) or {"*"}.
apply_extractor(extractor, event) ==
    IF extractor.default_for = "" THEN extractor.returns
    ELSE IF extractor.default_for = "s3" THEN infer_s3_arn(event)
    ELSE IF extractor.default_for = "dynamodb" THEN infer_dynamodb_arn(event)
    ELSE or_star(Elements(event.resource_arns))

\* ArnRuleRegistry(): service_rules after _register_defaults.
ArnRuleRegistry ==
    [service_rules |-> [service \in RegisteredServices |-> <<DefaultExtractor(service)>>]]

\* ArnRuleRegistry.register(service, extractor)
register_rule(self, service, extractor) ==
    LET rules == self.service_rules
    IN  [ service_rules |->
            [ k \in DOMAIN rules \cup {service} |->
                IF k = service
                THEN (IF k \in DOMAIN rules THEN Append(rules[k], extractor) ELSE <<extractor>>)
                ELSE rules[k] ] ]

\* The loop of infer over the extractors: candidates after the loop.
RECURSIVE infer_candidates(_, _)
infer_candidates(extractors, event) ==
    IF extractors = <<>> THEN {}
    ELSE apply_extractor(Head(extractors), event) \cup infer_candidates(Tail(extractors), event)

\* infer that returns candidates as they are, without `or {"*"}`.
infer_without_fallback(self, event) ==
    LET extractors == IF event.aws_service \in DOMAIN self.service_rules
                      THEN self.service_rules[event.aws_service] ELSE <<>>
    IN  IF extractors = <<>> THEN {"*"}
        ELSE infer_candidates(extractors, event)

\* ArnRuleRegistry.infer(event)
infer(self, event) ==
    LET extractors == IF event.aws_service \in DOMAIN self.service_rules
                      THEN self.service_rules[event.aws_service] ELSE <<>>
    IN  IF extractors = <<>> THEN {"*"}
        ELSE or_star(infer_candidates(extractors, event))

(***************************************************************************)
(* core/policy/generator.py                                                *)
(***************************************************************************)
\* PolicyGenerator.__init__; max_statements None is 0 (the code only tests
\* its truth value before comparing).
PolicyGenerator(mode, include_logs_baseline, max_statements) ==
    [ mode                  |-> mode,
      include_logs_baseline |-> include_logs_baseline,
      max_statements        |-> max_statements,
      additional_policies   |-> <<>> ]

\* PolicyStatement(sid=..., actions=..., resources=..., conditions=...)
PolicyStatement(sid, actions, resources, conditions) ==
    [ sid |-> sid, effect |-> "Allow", actions |-> actions,
      resources |-> resources, conditions |-> conditions ]

\* PolicyDoc(statements=...)
PolicyDoc(statements) == [version |-> "2012-10-17", statements |-> statements]

\* str(d) for a digit 0..9.
Digit(d) == SubSeq("0123456789", d + 1, d + 1)

\* str(n) for n >= 0.
RECURSIVE IntToStr(_)
IntToStr(n) == IF n < 10 THEN Digit(n) ELSE IntToStr(n \div 10) \o Digit(n % 10)

\* f"{counter:03d}" for counter >= 0.
Format03d(counter) ==
    LET text == IntToStr(counter)
    IN  IF Len(text) >= 3 THEN text
        ELSE IF Len(text) = 2 THEN "0" \o text
        ELSE "00" \o text

\* s.replace(old, new) for a one-character old.
RECURSIVE StrReplace(_, _, _)
StrReplace(s, old, new) ==
    IF s = "" THEN ""
    ELSE IF Len(s) = 1 THEN (IF s = old THEN new ELSE s)
    ELSE LET half == Len(s) \div 2
         IN  StrReplace(SubSeq(s, 1, half), old, new)
                \o StrReplace(SubSeq(s, half + 1, Len(s)), old, new)

\* s[:n]
Truncate(s, n) == IF Len(s) <= n THEN s ELSE SubSeq(s, 1, n)

\* _build_sid without the two slices: the whole service name, the whole id.
_build_sid_unsliced(service, counter) ==
    LET cut == StrReplace(StrReplace(service, ":", "_"), "-", "_")
        prefix == IF cut = "" THEN "svc" ELSE cut
    IN  prefix \o "_allow_" \o Format03d(counter)

\* PolicyGenerator._build_sid(service, counter)
_build_sid(service, counter) ==
    LET cut == Truncate(StrReplace(StrReplace(service, ":", "_"), "-", "_"), 40)
        prefix == IF cut = "" THEN "svc" ELSE cut
    IN  Truncate(prefix \o "_allow_" \o Format03d(counter), 128)

\* json.dumps(s) for a str of printable ASCII characters: a backslash is
\* written as two backslashes, a double quote as backslash and quote.
json_string(s) ==
    "\"" \o StrReplace(StrReplace(s, "\\", "\\\\"), "\"", "\\\"") \o "\""

\* json.dumps of the items of a list, without the brackets.
RECURSIVE json_list_items(_)
json_list_items(items) ==
    IF items = <<>> THEN ""
    ELSE IF Len(items) = 1 THEN json_string(items[1])
    ELSE json_string(items[1]) \o ", " \o json_list_items(Tail(items))

\* json.dumps of a condition value.
json_value(value) ==
    IF value.kind = "list" THEN "[" \o json_list_items(value.items) \o "]"
    ELSE IF value.kind = "int" THEN value.items[1]
    ELSE json_string(value.items[1])

\* json.dumps of the members of a dict in the order of keys, without the
\* braces.
RECURSIVE json_members(_, _)
json_members(dict, keys) ==
    IF keys = <<>> THEN ""
    ELSE json_string(Head(keys)) \o ": " \o json_value(dict[Head(keys)]) \o
         (IF Len(keys) = 1 THEN "" ELSE ", " \o json_members(dict, Tail(keys)))

\* json.dumps(condition_dict, sort_keys=True) if condition_dict else "{}"
condition_fingerprint(condition_dict) ==
    IF DOMAIN condition_dict = {} THEN "{}"
    ELSE "{" \o json_members(condition_dict, SortedStrings(DOMAIN condition_dict)) \o "}"

\* _determine_resources returning tuple(record.resources) as observed,
\* neither sorted nor deduplicated.
_determine_resources_unsorted(self, record) ==
    IF record.resources # <<>> THEN record.resources ELSE <<"*">>

\* PolicyGenerator._determine_resources(record)
_determine_resources(self, record) ==
    LET resources == IF record.resources # <<>>
                     THEN SortedStrings(Elements(record.resources))
                     ELSE <<>>
    IN  IF resources # <<>> THEN resources
        ELSE IF /\ self.mode = "resources"
                /\ allows_scoping(record.action)
                /\ infer_from_record(record) # {}
        THEN SortedStrings(infer_from_record(record))
        ELSE <<"*">>

\* The loop body without the lookup of the key in grouped: every record
\* opens a group of its own.
group_record_no_merge(self, grouped, record) ==
    LET condition_dict == merge(record.conditions)
        key == << record.service, _determine_resources(self, record),
                  condition_fingerprint(condition_dict) >>
    IN  Append(grouped, [key |-> key, conditions |-> condition_dict,
                         actions |-> {record.action}])

\* The loop body without grouped[key].add(record.action) for a key that
\* is already there: a group keeps the action of its first record only.
group_record_first_action(self, grouped, record) ==
    LET condition_dict == merge(record.conditions)
        key == << record.service, _determine_resources(self, record),
                  condition_fingerprint(condition_dict) >>
    IN  IF \E i \in DOMAIN grouped : grouped[i].key = key
        THEN grouped
        ELSE Append(grouped, [key |-> key, conditions |-> condition_dict,
                              actions |-> {record.action}])

\* The body of the first loop of _compose_statements: record is added to
\* the dict grouped (with conditions_map), kept in insertion order.
group_record(self, grouped, record) ==
    LET condition_dict == merge(record.conditions)
        key == << record.service, _determine_resources(self, record),
                  condition_fingerprint(condition_dict) >>
        hit == {i \in DOMAIN grouped : grouped[i].key = key}
    IN  IF hit = {}
        THEN Append(grouped, [key |-> key, conditions |-> condition_dict,
                              actions |-> {record.action}])
        ELSE LET i == CHOOSE j \in hit : TRUE
             IN  [grouped EXCEPT ![i].actions = @ \cup {record.action}]

RECURSIVE group_records(_, _)
group_records(self, recs) ==
    IF recs = <<>> THEN <<>>
    ELSE group_record(self, group_records(self, SubSeq(recs, 1, Len(recs) - 1)),
                      recs[Len(recs)])

\* a < b for the keys (service, resources, condition_key) of grouped.
group_key_less(a, b) ==
    IF a[1] # b[1] THEN StrLess(a[1], b[1])
    ELSE IF a[2] # b[2] THEN TupleLess(a[2], b[2])
    ELSE StrLess(a[3], b[3])

RECURSIVE sort_group_insert(_, _)
sort_group_insert(sorted, group) ==
    IF sorted = <<>> THEN <<group>>
    ELSE IF group_key_less(group.key, Head(sorted).key)
         THEN <<group>> \o sorted
         ELSE <<Head(sorted)>> \o sort_group_insert(Tail(sorted), group)

\* grouped.items() iterated in insertion order, without sorted().
sorted_groups_unsorted(grouped) == grouped

\* sorted(grouped.items())
RECURSIVE sorted_groups(_)
sorted_groups(grouped) ==
    IF grouped = <<>> THEN <<>>
    ELSE sort_group_insert(sorted_groups(SubSeq(grouped, 1, Len(grouped) - 1)),
                           grouped[Len(grouped)])

\* The second loop of _compose_statements granting every action of the
\* service instead of the actions of the group.
emit_statements_service_wildcard(groups) ==
    [ i \in DOMAIN groups |->
        PolicyStatement(
            _build_sid(groups[i].key[1],
                       Cardinality({j \in 1..i : groups[j].key[1] = groups[i].key[1]})),
            <<groups[i].key[1] \o ":*">>,
            groups[i].key[2],
            groups[i].conditions) ]

\* The second loop of _compose_statements with one counter for all
\* services.
emit_statements_one_counter(groups) ==
    [ i \in DOMAIN groups |->
        PolicyStatement(
            _build_sid(groups[i].key[1], i),
            SortedStrings(groups[i].actions),
            groups[i].key[2],
            groups[i].conditions) ]

\* The second loop of _compose_statements over the sorted groups: the
\* counter of a service is the number of groups of that service so far.
emit_statements(groups) ==
    [ i \in DOMAIN groups |->
        PolicyStatement(
            _build_sid(groups[i].key[1],
                       Cardinality({j \in 1..i : groups[j].key[1] = groups[i].key[1]})),
            SortedStrings(groups[i].actions),
            groups[i].key[2],
            groups[i].conditions) ]

\* PolicyGenerator._compose_statements(records)
_compose_statements(self, recs) ==
    emit_statements(sorted_groups(group_records(self, recs)))

\* PolicyGenerator._logs_baseline_statement()
_logs_baseline_statement ==
    PolicyStatement(
        _build_sid("logs", 1),
        <<"logs:CreateLogGroup", "logs:CreateLogStream", "logs:PutLogEvents">>,
        <<"arn:aws:logs:*:*:log-group:/aws/lambda/*">>,
        EmptyDict)

\* range(0, n, step) for step # 0, as a list.
RECURSIVE py_range(_, _, _)
py_range(start, stop, step) ==
    IF (step > 0 /\ start >= stop) \/ (step < 0 /\ start <= stop) THEN <<>>
    ELSE <<start>> \o py_range(start + step, stop, step)

\* _chunk_statements that takes the single-document branch whatever the
\* limit is.
_chunk_statements_unsplit(self, statements) == <<PolicyDoc(statements)>>

\* PolicyGenerator._chunk_statements(statements)
_chunk_statements(self, statements) ==
    IF self.max_statements = 0 \/ Len(statements) <= self.max_statements
    THEN <<PolicyDoc(statements)>>
    ELSE LET starts == py_range(0, Len(statements), self.max_statements)
         IN  [ c \in DOMAIN starts |->
                 PolicyDoc(SubSeq(statements, starts[c] + 1,
                     IF starts[c] + self.max_statements <= Len(statements)
                     THEN starts[c] + self.max_statements
                     ELSE Len(statements))) ]

\* build without the reset of additional_policies on entry.
build_keeps_overflow(self, recs) ==
    IF recs = <<>>
    THEN [self |-> self, doc |-> PolicyDoc(<<>>), raised |-> FALSE]
    ELSE
    LET composed == _compose_statements(self, recs)
        statements ==
            IF /\ self.include_logs_baseline
               /\ \E i \in DOMAIN recs : recs[i].service = "lambda"
            THEN Append(composed, _logs_baseline_statement)
            ELSE composed
        policies == _chunk_statements(self, statements)
    IN  IF policies = <<>>
        THEN [self |-> self, doc |-> PolicyDoc(<<>>), raised |-> TRUE]
        ELSE [self |-> [self EXCEPT !.additional_policies = Tail(policies)],
              doc |-> policies[1], raised |-> FALSE]

\* build that appends the baseline whenever include_logs_baseline is set,
\* without looking for a record of service lambda.
build_baseline_unconditional(self, recs) ==
    LET cleared == [self EXCEPT !.additional_policies = <<>>]
    IN  IF recs = <<>>
        THEN [self |-> cleared, doc |-> PolicyDoc(<<>>), raised |-> FALSE]
        ELSE
        LET composed == _compose_statements(self, recs)
            statements ==
                IF self.include_logs_baseline
                THEN Append(composed, _logs_baseline_statement)
                ELSE composed
            policies == _chunk_statements(self, statements)
        IN  IF policies = <<>>
            THEN [self |-> cleared, doc |-> PolicyDoc(<<>>), raised |-> TRUE]
            ELSE [self |-> [self EXCEPT !.additional_policies = Tail(policies)],
                  doc |-> policies[1], raised |-> FALSE]

\* PolicyGenerator.build(actions): the generator after the call, the
\* document returned, and whether the call raised (policies[0] on an empty
\* list is an IndexError).
build(self, recs) ==
    LET cleared == [self EXCEPT !.additional_policies = <<>>]
    IN  IF recs = <<>>
        THEN [self |-> cleared, doc |-> PolicyDoc(<<>>), raised |-> FALSE]
        ELSE
        LET composed == _compose_statements(self, recs)
            statements ==
                IF /\ self.include_logs_baseline
                   /\ \E i \in DOMAIN recs : recs[i].service = "lambda"
                THEN Append(composed, _logs_baseline_statement)
                ELSE composed
            policies == _chunk_statements(self, statements)
        IN  IF policies = <<>>
            THEN [self |-> cleared, doc |-> PolicyDoc(<<>>), raised |-> TRUE]
            ELSE [self |-> [self EXCEPT !.additional_policies = Tail(policies)],
                  doc |-> policies[1], raised |-> FALSE]

(***************************************************************************)
(* core/policy/simulator.py                                                *)
(* A dict keyed by (action, resource) is a sequence of [key, value]        *)
(* records in insertion order, one per key.  An Optional dict is           *)
(* [some |-> FALSE, value |-> <<>>] for None and [some |-> TRUE,            *)
(* value |-> items] for a dict with the given items.                       *)
(***************************************************************************)
NoneDict == [some |-> FALSE, value |-> <<>>]

SomeDict(items) == [some |-> TRUE, value |-> items]

\* SimulationCase(action, resource, context)
SimulationCase(action, resource, context) ==
    [action |-> action, resource |-> resource, context |-> context]

\* The handle of an IAM client object (any value other than None).
IamClient == 1

\* PolicySimulator(client): client is None or a client handle; without one
\* the constructor makes a client itself when boto3 could be imported.
PolicySimulator(client, boto3) ==
    [_client |-> IF client # None THEN client
                 ELSE IF boto3 THEN IamClient ELSE None]

\* s.startswith(prefix)
StartsWith(s, prefix) ==
    Len(prefix) <= Len(s) /\ SubSeq(s, 1, Len(prefix)) = prefix

\* s.endswith("*")
EndsWithStar(s) == s # "" /\ SubSeq(s, Len(s), Len(s)) = "*"

\* s[:-1]
DropLast(s) == IF s = "" THEN "" ELSE SubSeq(s, 1, Len(s) - 1)

\* PolicySimulator._action_matches(action, patterns)
_action_matches(action, patterns) ==
    \E i \in DOMAIN patterns :
       \/ patterns[i] = action
       \/ EndsWithStar(patterns[i]) /\ StartsWith(action, DropLast(patterns[i]))

\* PolicySimulator._resource_matches(resource, patterns)
_resource_matches(resource, patterns) ==
    IF patterns = <<>> THEN resource = "*"
    ELSE \E i \in DOMAIN patterns :
            \/ patterns[i] = "*"
            \/ patterns[i] = resource
            \/ EndsWithStar(patterns[i]) /\ StartsWith(resource, DropLast(patterns[i]))

\* results[key] = value
dict_set(results, key, value) ==
    LET hit == {i \in DOMAIN results : results[i].key = key}
    IN  IF hit = {} THEN Append(results, [key |-> key, value |-> value])
        ELSE [i \in DOMAIN results |->
                 IF i \in hit THEN [key |-> key, value |-> value] ELSE results[i]]

\* results.get(key, default)
dict_get(results, key, default) ==
    LET hit == {i \in DOMAIN results : results[i].key = key}
    IN  IF hit = {} THEN default ELSE results[CHOOSE i \in hit : TRUE].value

\* The loop over policy.statements in _local_simulate, without the test of
\* statement.effect.
local_decision_any_effect(policy, case) ==
    IF \E i \in DOMAIN policy.statements :
          /\ _action_matches(case.action, policy.statements[i].actions)
          /\ _resource_matches(case.resource, policy.statements[i].resources)
    THEN "Allow" ELSE "Deny"

\* The loop over policy.statements in _local_simulate: the decision for
\* one case.
local_decision(policy, case) ==
    IF \E i \in DOMAIN policy.statements :
          /\ policy.statements[i].effect = "Allow"
          /\ _action_matches(case.action, policy.statements[i].actions)
          /\ _resource_matches(case.resource, policy.statements[i].resources)
    THEN "Allow" ELSE "Deny"

\* PolicySimulator._local_simulate(policy, cases)
RECURSIVE local_fold(_, _, _)
local_fold(policy, cases, results) ==
    IF cases = <<>> THEN results
    ELSE local_fold(policy, Tail(cases),
            dict_set(results, <<Head(cases).action, Head(cases).resource>>,
                     local_decision(policy, Head(cases))))

_local_simulate(policy, cases) == local_fold(policy, cases, <<>>)

\* The loop of _aws_simulate over response.get("EvaluationResults", []).
RECURSIVE response_fold(_, _)
response_fold(entries, results) ==
    IF entries = <<>> THEN results
    ELSE response_fold(Tail(entries),
            dict_set(results,
                     <<Head(entries).EvalActionName, Head(entries).EvalResourceName>>,
                     IF Head(entries).EvalDecision = "allowed" THEN "Allow" ELSE "Deny"))

\* The keyword arguments of simulate_custom_policy.  The contexts modelled
\* carry none of the ContextKey* entries, so ContextEntries is never set.
simulate_kwargs(policy, cases) ==
    [ PolicyInputList |-> <<[Version |-> policy.version, Statement |-> policy.statements]>>,
      ActionNames     |-> [i \in DOMAIN cases |-> cases[i].action],
      ResourceArns    |-> [i \in DOMAIN cases |-> cases[i].resource] ]

\* _aws_simulate with an except clause that gives up: no results for the
\* document when the call fails.
_aws_simulate_no_fallback(policy, cases, outcome) ==
    [ results |-> IF outcome.raised THEN <<>>
                  ELSE response_fold(outcome.EvaluationResults, <<>>),
      calls   |-> <<[request |-> simulate_kwargs(policy, cases), raised |-> outcome.raised]>>,
      raised  |-> FALSE ]

\* PolicySimulator._aws_simulate(policy, cases), where outcome is what the
\* call of simulate_custom_policy does: it raises, or it returns a response
\* with the given EvaluationResults.
_aws_simulate(policy, cases, outcome) ==
    [ results |-> IF outcome.raised THEN _local_simulate(policy, cases)
                  ELSE response_fold(outcome.EvaluationResults, <<>>),
      calls   |-> <<[request |-> simulate_kwargs(policy, cases), raised |-> outcome.raised]>>,
      raised  |-> FALSE ]

\* PolicySimulator._run(policy, cases)
_run(self, policy, cases, outcome) ==
    IF self._client # None THEN _aws_simulate(policy, cases, outcome)
    ELSE [results |-> _local_simulate(policy, cases), calls |-> <<>>, raised |-> FALSE]

\* PolicySimulator.compare(before, after, cases): the rows, the client
\* calls made, and whether an exception left compare.
compare(self, before, after, cases, outcome_before, outcome_after) ==
    LET before_run == _run(self, before, cases, outcome_before)
    IN  IF before_run.raised
        THEN [rows |-> <<>>, calls |-> before_run.calls, raised |-> TRUE]
        ELSE
        LET after_run == _run(self, after, cases, outcome_after)
        IN  IF after_run.raised
            THEN [rows |-> <<>>, calls |-> before_run.calls \o after_run.calls,
                  raised |-> TRUE]
            ELSE
            [ rows |-> [ i \in DOMAIN cases |->
                 LET key == <<cases[i].action, cases[i].resource>>
                 IN  [ action   |-> cases[i].action,
                       resource |-> cases[i].resource,
                       context  |-> cases[i].context.value,
                       before   |-> dict_get(before_run.results, key, "Deny"),
                       after    |-> dict_get(after_run.results, key, "Deny") ] ],
              calls |-> before_run.calls \o after_run.calls,
              raised |-> FALSE ]

(***************************************************************************)
(* core/policy/diff.py                                                     *)
(* A float that is a quotient of two ints is the fraction [num, den] in    *)
(* lowest terms with den > 0; 0.0 is [num |-> 0, den |-> 1].               *)
(***************************************************************************)
RECURSIVE GCD(_, _)
GCD(a, b) == IF b = 0 THEN a ELSE GCD(b, a % b)

\* n / d for ints n and d > 0.
Quotient(n, d) ==
    LET g == GCD(IF n < 0 THEN -n ELSE n, d)
    IN  [num |-> n \div g, den |-> d \div g]

\* 0.0
FloatZero == [num |-> 0, den |-> 1]

\* max(x, 0.0)
MaxWithZero(x) == IF x.num > 0 THEN x ELSE FloatZero

\* PolicyDiff(before, after)
PolicyDiff(before, after) == [before |-> before, after |-> after]

\* PolicyDiff.statement_delta()
statement_delta(self) == Len(self.after.statements) - Len(self.before.statements)

\* _count_actions with total += 1 per statement.
RECURSIVE _count_actions_per_statement(_)
_count_actions_per_statement(statements) ==
    IF statements = <<>> THEN 0
    ELSE 1 + _count_actions_per_statement(Tail(statements))

\* PolicyDiff._count_actions(policy), on policy.statements
RECURSIVE _count_actions(_)
_count_actions(statements) ==
    IF statements = <<>> THEN 0
    ELSE Len(Head(statements).actions) + _count_actions(Tail(statements))

\* PolicyDiff._count_resources(policy), on policy.statements
RECURSIVE _count_resources(_)
_count_resources(statements) ==
    IF statements = <<>> THEN 0
    ELSE Len(Head(statements).resources) + _count_resources(Tail(statements))

\* PolicyDiff.allowed_action_delta()
allowed_action_delta(self) ==
    _count_actions(self.after.statements) - _count_actions(self.before.statements)

\* resource_reduction_ratio without max(..., 0.0).
resource_reduction_ratio_unclamped(self) ==
    LET before_resources == _count_resources(self.before.statements)
        after_resources == _count_resources(self.after.statements)
    IN  IF before_resources = 0 THEN FloatZero
        ELSE Quotient(before_resources - after_resources, before_resources)

\* PolicyDiff.resource_reduction_ratio()
resource_reduction_ratio(self) ==
    LET before_resources == _count_resources(self.before.statements)
        after_resources == _count_resources(self.after.statements)
    IN  IF before_resources = 0 THEN FloatZero
        ELSE MaxWithZero(Quotient(before_resources - after_resources, before_resources))

\* action.split(":", 1)[0]
RECURSIVE split_service(_)
split_service(action) ==
    IF action = "" \/ Head(action) = ":" THEN ""
    ELSE SubSeq(action, 1, 1) \o split_service(Tail(action))

\* The loop of _service_counts over the actions of one statement.
RECURSIVE count_statement_services(_, _)
count_statement_services(counts, actions) ==
    IF actions = <<>> THEN counts
    ELSE LET service == split_service(Head(actions))
         IN  count_statement_services(
                 dict_set(counts, service, dict_get(counts, service, 0) + 1),
                 Tail(actions))

\* PolicyDiff._service_counts(policy), on policy.statements, from counts
RECURSIVE _service_counts(_, _)
_service_counts(statements, counts) ==
    IF statements = <<>> THEN counts
    ELSE _service_counts(Tail(statements),
                         count_statement_services(counts, Head(statements).actions))

\* entries.sort(key=lambda item: item[0]) for entries of distinct services,
\* which makes the order the set was iterated in irrelevant.
RECURSIVE sort_entries(_)
sort_entries(entries) ==
    IF entries = {} THEN <<>>
    ELSE LET first == CHOOSE e \in entries :
                         \A o \in entries \ {e} : StrLess(e.service, o.service)
         IN  <<first>> \o sort_entries(entries \ {first})

\* entries[:limit] for limit >= 0
py_head(entries, limit) ==
    SubSeq(entries, 1, IF limit < Len(entries) THEN limit ELSE Len(entries))

\* PolicyDiff._top_service_changes(limit): (service, before, after) per entry
_top_service_changes(self, limit) ==
    LET before_counts == _service_counts(self.before.statements, <<>>)
        after_counts == _service_counts(self.after.statements, <<>>)
        services == { before_counts[i].key : i \in DOMAIN before_counts }
                       \cup { after_counts[i].key : i \in DOMAIN after_counts }
        entries == { [ service |-> sv,
                       before  |-> dict_get(before_counts, sv, 0),
                       after   |-> dict_get(after_counts, sv, 0) ] :
                     sv \in { x \in services :
                                dict_get(before_counts, x, 0) > dict_get(after_counts, x, 0) } }
    IN  py_head(sort_entries(entries), limit)

(***************************************************************************)
(* core/allowlist.py                                                       *)
(***************************************************************************)
\* s is made of decimal digits.
IsDigits(s) == \A i \in 1..Len(s) : SubSeq(s, i, i) \in { Digit(d) : d \in 0..9 }

\* int(s) for a string of decimal digits.
RECURSIVE DigitsToInt(_)
DigitsToInt(s) ==
    IF s = "" THEN 0
    ELSE DigitsToInt(SubSeq(s, 1, Len(s) - 1)) * 10
           + (CHOOSE d \in 0..9 : Digit(d) = SubSeq(s, Len(s), Len(s)))

\* The days of month m of year y.
DaysInMonth(y, m) ==
    IF m = 2 THEN (IF y % 4 = 0 /\ (y % 100 # 0 \/ y % 400 = 0) THEN 29 ELSE 28)
    ELSE IF m \in {4, 6, 9, 11} THEN 30
    ELSE 31

\* datetime.fromisoformat(value), for a value of the form YYYY-MM-DD,
\* YYYY-MM-DDTHH:MM:SS or YYYY-MM-DDTHH:MM:SS+00:00 and for a value that is
\* no ISO timestamp: whether it parses, whether the result carries a
\* time zone, and the instant as YYYY-MM-DDTHH:MM:SS.
fromisoformat(value) ==
    LET aware == Len(value) = 25 /\ SubSeq(value, 20, 25) = "+00:00"
        body == IF aware THEN SubSeq(value, 1, 19)
                ELSE IF Len(value) = 10 THEN value \o "T00:00:00"
                ELSE value
        shaped == /\ Len(body) = 19
                  /\ IsDigits(SubSeq(body, 1, 4))
                  /\ SubSeq(body, 5, 5) = "-"
                  /\ IsDigits(SubSeq(body, 6, 7))
                  /\ SubSeq(body, 8, 8) = "-"
                  /\ IsDigits(SubSeq(body, 9, 10))
                  /\ SubSeq(body, 11, 11) = "T"
                  /\ IsDigits(SubSeq(body, 12, 13))
                  /\ SubSeq(body, 14, 14) = ":"
                  /\ IsDigits(SubSeq(body, 15, 16))
                  /\ SubSeq(body, 17, 17) = ":"
                  /\ IsDigits(SubSeq(body, 18, 19))
        year == DigitsToInt(SubSeq(body, 1, 4))
        month == DigitsToInt(SubSeq(body, 6, 7))
        day == DigitsToInt(SubSeq(body, 9, 10))
        ranged == /\ year >= 1
                  /\ month \in 1..12
                  /\ day \in 1..DaysInMonth(year, month)
                  /\ DigitsToInt(SubSeq(body, 12, 13)) <= 23
                  /\ DigitsToInt(SubSeq(body, 15, 16)) <= 59
                  /\ DigitsToInt(SubSeq(body, 18, 19)) <= 59
    IN  IF shaped /\ ranged
        THEN [valid |-> TRUE, aware |-> aware, instant |-> body]
        ELSE [valid |-> FALSE, aware |-> FALSE, instant |-> ""]

\* parse_timestamp(label, value) of load_allowlist
parse_timestamp(value) == fromisoformat(StrReplace(value, "Z", "+00:00"))

\* The file .iamlp-allow.json: absent, unreadable (its text is not a JSON
\* object), or an object with its members; a member that is absent or
\* empty is "" or <<>>.
AbsentFile == [kind |-> "absent"]

UnreadableFile == [kind |-> "unreadable"]

AllowlistFile(actions, resources, reason, owner, createdAt, expiresAt) ==
    [ kind |-> "object", actions |-> actions, resources |-> resources,
      principals |-> <<>>, reason |-> reason, owner |-> owner,
      createdAt |-> createdAt, expiresAt |-> expiresAt ]

\* load_allowlist(path, strict=strict) with the file at path and
\* datetime.now(tz=timezone.utc) = now: the dict returned, or raised.  A
\* comparison of a datetime without a time zone with one that has a time
\* zone raises TypeError.
load_allowlist(file, strict, now) ==
    IF file.kind = "absent"
    THEN [ raised |-> FALSE,
           value  |-> [ actions |-> <<>>, resources |-> <<>>, principals |-> <<>>,
                        expiresAt |-> None, reason |-> None ] ]
    ELSE IF file.kind = "unreadable"
    THEN [raised |-> TRUE, value |-> None]
    ELSE IF file.reason = "" \/ file.owner = "" \/ file.createdAt = "" \/ file.expiresAt = ""
    THEN [raised |-> TRUE, value |-> None]
    ELSE LET created_dt == parse_timestamp(file.createdAt)
             expiry_dt == parse_timestamp(file.expiresAt)
             now_dt == parse_timestamp(now)
         IN  IF ~created_dt.valid \/ ~expiry_dt.valid
             THEN [raised |-> TRUE, value |-> None]
             ELSE IF expiry_dt.aware # created_dt.aware
             THEN [raised |-> TRUE, value |-> None]
             ELSE IF StrLess(expiry_dt.instant, created_dt.instant)
             THEN [raised |-> TRUE, value |-> None]
             ELSE IF ~expiry_dt.aware
             THEN [raised |-> TRUE, value |-> None]
             ELSE IF StrLess(expiry_dt.instant, now_dt.instant) /\ strict
             THEN [raised |-> TRUE, value |-> None]
             ELSE [ raised |-> FALSE,
                    value  |-> [ actions    |-> file.actions,
                                 resources  |-> file.resources,
                                 principals |-> file.principals,
                                 expiresAt  |-> file.expiresAt,
                                 createdAt  |-> file.createdAt,
                                 owner      |-> file.owner,
                                 reason     |-> file.reason ] ]

\* d.get(key) for a dict with str keys: None for a key that is not there.
dict_key(d, key) == IF key \in DOMAIN d THEN d[key] ELSE None

(***************************************************************************)
(* cli/main.py: the diff command                                           *)
(***************************************************************************)
\* sum(1 for row in results if row[column] == "Deny"), column "before"
RECURSIVE count_before_denies(_)
count_before_denies(results) ==
    IF results = <<>> THEN 0
    ELSE (IF Head(results).before = "Deny" THEN 1 ELSE 0) + count_before_denies(Tail(results))

\* sum(1 for row in results if row["after"] == "Deny")
RECURSIVE count_after_denies(_)
count_after_denies(results) ==
    IF results = <<>> THEN 0
    ELSE (IF Head(results).after = "Deny" THEN 1 ELSE 0) + count_after_denies(Tail(results))

\* _is_allowlisted(action, principal, resources, allowlist) of cli/main.py
cli_is_allowlisted(action, principal, resources, allowlist) ==
    \/ \E i \in DOMAIN allowlist.actions : fnmatch(action, allowlist.actions[i])
    \/ /\ principal # ""
       /\ \E i \in DOMAIN allowlist.principals : fnmatch(principal, allowlist.principals[i])
    \/ \E r \in DOMAIN resources :
          \E i \in DOMAIN allowlist.resources : fnmatch(resources[r], allowlist.resources[i])

\* The loop of _cmd_diff over the rows: a row the allowlist matches gets the
\* keys waived, reason, owner and expiresAt.  The resources handed to
\* _is_allowlisted are the one-element list of the row's after decision.
waive_results(results, allowlist) ==
    [ i \in DOMAIN results |->
        LET result == results[i]
            res_after == IF result.after # "" THEN <<result.after>> ELSE <<>>
        IN  IF cli_is_allowlisted(result.action, "", res_after, allowlist)
            THEN [ k \in DOMAIN result \cup {"waived", "reason", "owner", "expiresAt"} |->
                     IF k = "waived" THEN TRUE
                     ELSE IF k \in {"reason", "owner", "expiresAt"} THEN dict_key(allowlist, k)
                     ELSE result[k] ]
            ELSE result ]

\* The payload handed to output.emit: the deny_change of the summary and
\* the rows of the cases after the allowlist loop (the members details,
\* metrics, compliance, allowlist and allowlistWaivers are left out).
diff_payload(results, before_denies, after_denies, allowlist) ==
    [ summary |-> [deny_change |-> after_denies - before_denies],
      cases   |-> waive_results(results, allowlist) ]

\* output.emit(data, fmt, output_path) raises ValueError for a format that
\* is none of json, md, table and sarif, before anything is written.
emit_raises(fmt) == fmt \notin {"json", "md", "table", "sarif"}

\* The tail of _cmd_diff without the check for before_denies == 0.
diff_exit_code_ratio_only(before_denies, after_denies, threshold) ==
    IF before_denies > 0
       /\ after_denies - before_denies > 0
       /\ (after_denies - before_denies) * threshold.den > threshold.num * before_denies
    THEN 3
    ELSE 0

\* The tail of _cmd_diff: the exit code.  increase / before_denies >
\* threshold, with threshold the fraction [num, den].
diff_exit_code(before_denies, after_denies, threshold) ==
    IF before_denies = 0 /\ after_denies > 0 THEN 3
    ELSE IF before_denies > 0
            /\ after_denies - before_denies > 0
            /\ (after_denies - before_denies) * threshold.den > threshold.num * before_denies
    THEN 3
    ELSE 0

(***************************************************************************)
(* Inputs of the aggregator                                                *)
(***************************************************************************)
MaxEvents == 2

Principals == {"user/Alice", "user/Bob"}

\* (aws_service, action) as the normalizer emits them: bare and prefixed.
ServiceActions == {<<"s3", "GetObject">>, <<"s3", "s3:GetObject">>, <<"ec2", "RunInstances">>}

Times == {1, 2}

\* What the request touched: the resources, and the condition constraints
\* the event carried.
Payloads ==
    { [resource_arns |-> <<"arn:ex/b">>, conditions |-> <<>>],
      [resource_arns |-> <<"arn:ex/b", "arn:ex/a">>,
       conditions |-> <<[StringEquals |-> StrValue("vpc-1")]>>] }

EventInputs ==
    { [ event_time    |-> t,
        principal_arn |-> p,
        aws_service   |-> sa[1],
        action        |-> sa[2],
        resource_arns |-> pl.resource_arns,
        conditions    |-> pl.conditions ] :
      t \in Times, p \in Principals, sa \in ServiceActions, pl \in Payloads }

NoFilters ==
    [ principal_filter |-> "", exclude_actions |-> <<>>, allow_actions |-> <<>>,
      allow_principals |-> <<>>, allow_resources |-> <<>>, min_count |-> 1,
      dynamodb_table |-> FALSE ]

\* The constructor arguments tried.
AggregatorArgs ==
    { NoFilters,
      [NoFilters EXCEPT !.dynamodb_table = TRUE, !.min_count = 0],
      [NoFilters EXCEPT !.principal_filter = "Bob$"],
      [NoFilters EXCEPT !.principal_filter = "Carol"],
      [NoFilters EXCEPT !.exclude_actions = <<"s3:Get*">>],
      [NoFilters EXCEPT !.min_count = 2, !.dynamodb_table = TRUE],
      [NoFilters EXCEPT !.allow_actions = <<"ec2:*">>, !.allow_resources = <<"arn:ex/a*">>,
                        !.dynamodb_table = TRUE],
      [NoFilters EXCEPT !.allow_principals = <<"*/Alice">>, !.min_count = 2] }

(***************************************************************************)
(* Components at rest: no call in progress, nothing returned               *)
(***************************************************************************)
\* Every component but the named one is at rest.
AtRestExcept(component) ==
    /\ component # "agg" =>
          /\ agg = ActionAggregator(NoFilters)
          /\ events = <<>>
          /\ states = <<>>
          /\ agg_pc = "idle"
          /\ records = <<>>
          /\ raised = FALSE
          /\ upsert_calls = <<>>
          /\ table_items = {}
    /\ component # "gen" =>
          /\ gen = PolicyGenerator("actions", FALSE, None)
          /\ gen_in = <<>>
          /\ gen_pc = "idle"
          /\ gen_out = PolicyDoc(<<>>)
          /\ gen_raised = FALSE
          /\ gen_calls = 0
          /\ gen_before = <<>>
    /\ component # "sid" =>
          /\ sid_in = <<"", 0>>
          /\ sid_out = ""
          /\ sid_pc = "idle"
    /\ component # "sim" =>
          /\ sim = PolicySimulator(None, FALSE)
          /\ sim_in = [before |-> PolicyDoc(<<>>), after |-> PolicyDoc(<<>>), cases |-> <<>>]
          /\ sim_pc = "idle"
          /\ sim_out = <<>>
          /\ sim_calls = <<>>
          /\ sim_raised = FALSE
    /\ component # "diff" =>
          /\ diff = PolicyDiff(PolicyDoc(<<>>), PolicyDoc(<<>>))
          /\ diff_pc = "idle"
          /\ diff_out = [statementDelta |-> 0, allowedActionDelta |-> 0,
                         resourceReductionRatio |-> FloatZero,
                         top_n |-> 0, topServiceChanges |-> <<>>]
    /\ component # "cond" =>
          /\ cond_in = <<>>
          /\ cond_pc = "idle"
          /\ cond_out = EmptyDict
    /\ component # "arn" =>
          /\ arn = ArnRuleRegistry
          /\ arn_in = InferenceEvent("", [k \in {} |-> ""], <<>>)
          /\ arn_pc = "idle"
          /\ arn_out = {}
    /\ component # "cli" =>
          /\ cli_in = [before |-> PolicyDoc(<<>>), after |-> PolicyDoc(<<>>), cases |-> <<>>, deny_threshold |-> FloatZero, boto3 |-> FALSE, env |-> None]
          /\ cli_pc = "idle"
          /\ cli_report = <<>>
          /\ cli_denies = [before |-> 0, after |-> 0]
          /\ cli_exit = None

(***************************************************************************)
(* The aggregator as a state machine                                       *)
(***************************************************************************)
InitAgg ==
    /\ agg \in {ActionAggregator(a) : a \in AggregatorArgs}
    /\ events = <<>>
    /\ states = <<>>
    /\ agg_pc = "fold"
    /\ records = <<>>
    /\ raised = FALSE
    /\ upsert_calls = <<>>
    /\ table_items = {}
    /\ AtRestExcept("agg")

\* The iterable yields one more event and the loop body runs on it.
AggregateStep ==
    /\ agg_pc = "fold"
    /\ Len(events) < MaxEvents
    /\ \E data \in EventInputs :
          /\ events' = Append(events, data)
          /\ states' = aggregate_loop_body(agg, states, EventModel(data))
    /\ UNCHANGED <<agg, agg_pc, records, raised, upsert_calls, table_items>>
    /\ UNCHANGED <<genVars, sidVars, simVars, diffVars, condVars, arnVars, cliVars>>

\* The iterable is exhausted: select, sort, upsert, return.
AggregateReturn ==
    /\ agg_pc = "fold"
    /\ \E fails \in SUBSET (1..Len(aggregate_select(agg, states))) :
          LET out == aggregate_finish(agg, states, fails)
          IN  /\ (~agg.table => fails = {})
              /\ records' = out.records
              /\ raised' = out.raised
              /\ upsert_calls' = out.calls
              /\ table_items' = out.items
    /\ agg_pc' = "done"
    /\ UNCHANGED <<agg, events, states>>
    /\ UNCHANGED <<genVars, sidVars, simVars, diffVars, condVars, arnVars, cliVars>>

NextAgg == AggregateStep \/ AggregateReturn

SpecAgg == InitAgg /\ [][NextAgg]_vars

(***************************************************************************)
(* Inputs of the generator                                                 *)
(***************************************************************************)
MaxRecords == 2

\* (service, action) of the usage records.
RecordActions ==
    { <<"s3", "s3:GetObject">>, <<"s3", "s3:PutObject">>,
      <<"lambda", "lambda:InvokeFunction">> }

\* The observed resources: none, one, and an unsorted list with a repeat.
RecordResources == { <<>>, <<"arn:ex/b">>, <<"arn:ex/b", "arn:ex/a", "arn:ex/b">> }

\* The observed condition maps: none, and two maps that differ in one value.
RecordConditions ==
    { <<>>,
      << [StringEquals |-> StrValue("vpc-2")], [StringEquals |-> StrValue("vpc-1")] >> }

RecordInputs ==
    { [ principal_arn |-> "role/Test",
        service       |-> sa[1],
        action        |-> sa[2],
        count         |-> 1,
        resources     |-> r,
        conditions    |-> c,
        last_seen     |-> None ] :
      sa \in RecordActions, r \in RecordResources, c \in RecordConditions }

RecordLists == UNION { [1..n -> RecordInputs] : n \in 0..MaxRecords }

Modes == {"actions", "resources"}

\* max_statements: unset, and a limit of one statement per document.
StatementLimits == {None, 1, 2}

(***************************************************************************)
(* The generator as a state machine                                        *)
(***************************************************************************)
InitGen ==
    /\ gen \in { PolicyGenerator(m, b, l) :
                    m \in Modes, b \in BOOLEAN, l \in StatementLimits }
    /\ gen_in \in RecordLists
    /\ gen_pc = "ready"
    /\ gen_out = PolicyDoc(<<>>)
    /\ gen_raised = FALSE
    /\ gen_calls = 0
    /\ gen_before = <<>>
    /\ AtRestExcept("gen")

\* generator.build(gen_in)
Build ==
    /\ gen_pc = "ready"
    /\ LET out == build(gen, gen_in)
       IN  /\ gen' = out.self
           /\ gen_out' = out.doc
           /\ gen_raised' = out.raised
    /\ gen_pc' = "done"
    /\ gen_calls' = gen_calls + 1
    /\ gen_before' = gen.additional_policies
    /\ UNCHANGED gen_in
    /\ UNCHANGED <<aggVars, sidVars, simVars, diffVars, condVars, arnVars, cliVars>>

NextGen == Build

SpecGen == InitGen /\ [][NextGen]_vars

(***************************************************************************)
(* One generator, several build calls                                      *)
(***************************************************************************)
MaxCalls == 3

\* A usage record as the aggregator returns it.
UsageRecord(service, action, resources) ==
    [ ActionRecord("role/Test", service, action) EXCEPT
        !.count = 1, !.resources = resources ]

\* The record lists handed to the calls: none, one group, two groups, and
\* three groups with a lambda record.
RebuildInputs ==
    { <<>>,
      << UsageRecord("s3", "s3:GetObject", <<"arn:ex/b">>) >>,
      << UsageRecord("s3", "s3:GetObject", <<"arn:ex/b">>),
         UsageRecord("s3", "s3:PutObject", <<>>) >>,
      << UsageRecord("lambda", "lambda:InvokeFunction", <<>>),
         UsageRecord("s3", "s3:GetObject", <<"arn:ex/b">>),
         UsageRecord("s3", "s3:PutObject", <<>>) >> }

InitRebuild ==
    /\ gen \in { PolicyGenerator(m, b, l) :
                    m \in Modes, b \in BOOLEAN, l \in StatementLimits }
    /\ gen_in = <<>>
    /\ gen_pc = "ready"
    /\ gen_out = PolicyDoc(<<>>)
    /\ gen_raised = FALSE
    /\ gen_calls = 0
    /\ gen_before = <<>>
    /\ AtRestExcept("gen")

\* generator.build(recs), on the generator as the previous call left it
Rebuild ==
    /\ gen_pc \in {"ready", "done"}
    /\ gen_calls < MaxCalls
    /\ \E recs \in RebuildInputs :
          LET out == build(gen, recs)
          IN  /\ gen_in' = recs
              /\ gen' = out.self
              /\ gen_out' = out.doc
              /\ gen_raised' = out.raised
    /\ gen_pc' = "done"
    /\ gen_calls' = gen_calls + 1
    /\ gen_before' = gen.additional_policies
    /\ UNCHANGED <<aggVars, sidVars, simVars, diffVars, condVars, arnVars, cliVars>>

NextRebuild == Rebuild

SpecRebuild == InitRebuild /\ [][NextRebuild]_vars

(***************************************************************************)
(* The statement id builder on its own                                     *)
(***************************************************************************)
MaxServiceLen == 200

\* n copies of unit, concatenated.
RECURSIVE Repeat(_, _)
Repeat(unit, n) ==
    IF n = 0 THEN ""
    ELSE LET half == Repeat(unit, n \div 2)
         IN  half \o half \o (IF n % 2 = 1 THEN unit ELSE "")

\* Service names of every length up to MaxServiceLen: plain, and made of
\* the characters _build_sid replaces.
ServiceNames == { Repeat(u, n) : u \in {"s", ":", "-"}, n \in 0..MaxServiceLen }

\* counters[service] is at least 1 when _build_sid is called.
SidCounters == {1, 12, 999, 1000, 2147483647}

InitSid ==
    /\ sid_in \in ServiceNames \X SidCounters
    /\ sid_out = ""
    /\ sid_pc = "ready"
    /\ AtRestExcept("sid")

\* sid = self._build_sid(service, counters[service])
BuildSid ==
    /\ sid_pc = "ready"
    /\ sid_out' = _build_sid(sid_in[1], sid_in[2])
    /\ sid_pc' = "done"
    /\ UNCHANGED sid_in
    /\ UNCHANGED <<aggVars, genVars, simVars, diffVars, condVars, arnVars, cliVars>>

NextSid == BuildSid

SpecSid == InitSid /\ [][NextSid]_vars

(***************************************************************************)
(* The generator on service names that meet in their statement ids        *)
(***************************************************************************)
\* The empty name, logs and lambda, three names that differ only in the
\* separator, and two names of 41 characters that share the first 40.
NamedServices ==
    { "", "logs", "lambda", "app-sync", "app_sync", "app:sync",
      Repeat("a", 40) \o "x", Repeat("a", 40) \o "y" }

\* One action per service, used on no resource or on one; and two s3
\* records whose condition values are a" and a#, which json.dumps writes
\* as a\" and a#.
NamedRecords ==
    { UsageRecord(sv, sv \o ":Op", r) : sv \in NamedServices, r \in { <<>>, <<"arn:ex/a">> } }
       \cup { [ UsageRecord("s3", "s3:GetObject", <<>>) EXCEPT
                  !.conditions = << [k \in {"k"} |-> StrValue("a\"")] >> ],
              [ UsageRecord("s3", "s3:PutObject", <<>>) EXCEPT
                  !.conditions = << [k \in {"k"} |-> StrValue("a#")] >> ] }

\* max_statements as an int: negative, zero (which build reads like None),
\* and one.
IntLimits == {-1, 0, 1}

InitNames ==
    /\ gen \in { PolicyGenerator(m, b, l) :
                    m \in Modes, b \in BOOLEAN, l \in IntLimits }
    /\ gen_in \in UNION { [1..n -> NamedRecords] : n \in 0..MaxRecords }
    /\ gen_pc = "ready"
    /\ gen_out = PolicyDoc(<<>>)
    /\ gen_raised = FALSE
    /\ gen_calls = 0
    /\ gen_before = <<>>
    /\ AtRestExcept("gen")

SpecNames == InitNames /\ [][NextGen]_vars

(***************************************************************************)
(* The simulator as a state machine                                        *)
(***************************************************************************)
MaxProbes == 2

\* PolicyStatement(effect=..., actions=..., resources=...)
SimStatement(effect, actions, resources) ==
    [ PolicyStatement(None, actions, resources, EmptyDict) EXCEPT !.effect = effect ]

\* Statements with a literal action, a wildcard action, a wildcard
\* resource, a prefix resource, no resource at all, and effect Deny.
SimStatements ==
    { SimStatement("Allow", <<"s3:GetObject">>, <<"arn:ex/bucket/*">>),
      SimStatement("Allow", <<"s3:Get*">>, <<"arn:ex/bucket/a">>),
      SimStatement("Allow", <<"s3:PutObject">>, <<"*">>),
      SimStatement("Allow", <<"s3:GetObject">>, <<>>),
      SimStatement("Allow", <<"s3:PutObject", "s3:GetObject">>, <<"arn:ex/other", "arn:ex/bucket/a">>),
      SimStatement("Deny", <<"s3:GetObject">>, <<"*">>) }

BeforeDocs ==
    { PolicyDoc(<<>>) } \cup { PolicyDoc(<<x>>) : x \in SimStatements }
       \cup { PolicyDoc(<<x, y>>) : x \in SimStatements, y \in SimStatements }

AfterDocs ==
    { PolicyDoc(<<>>),
      PolicyDoc(<<SimStatement("Allow", <<"s3:GetObject">>, <<"arn:ex/bucket/*">>)>>) }

Probes ==
    { SimulationCase("s3:GetObject", "arn:ex/bucket/a", NoneDict),
      SimulationCase("s3:GetObject", "*", NoneDict),
      SimulationCase("s3:PutObject", "arn:ex/bucket/a", NoneDict),
      SimulationCase("s3:GetObjectAcl", "arn:ex/bucket/a",
                     SomeDict(<<[key |-> "aws:SourceVpc", value |-> "vpc-1"]>>)) }

ProbeLists == UNION { [1..n -> Probes] : n \in 0..MaxProbes }

\* An entry of EvaluationResults for a case.
EvaluationResult(case, decision) ==
    [ EvalActionName |-> case.action, EvalResourceName |-> case.resource,
      EvalDecision |-> decision ]

\* What a call of simulate_custom_policy may do: raise, or answer with no
\* results, with one result per case, or with a result for the first case
\* only.
ClientOutcomes(cases) ==
    { [raised |-> TRUE, EvaluationResults |-> <<>>],
      [raised |-> FALSE, EvaluationResults |-> <<>>],
      [raised |-> FALSE,
       EvaluationResults |-> [i \in DOMAIN cases |-> EvaluationResult(cases[i], "allowed")]],
      [raised |-> FALSE,
       EvaluationResults |-> [i \in DOMAIN cases |-> EvaluationResult(cases[i], "implicitDeny")]],
      [raised |-> FALSE,
       EvaluationResults |-> [i \in DOMAIN cases \cap {1} |-> EvaluationResult(cases[i], "allowed")]] }

InitSim ==
    /\ sim \in { PolicySimulator(c, b) : c \in {None, IamClient}, b \in BOOLEAN }
    /\ sim_in \in [before : BeforeDocs, after : AfterDocs, cases : ProbeLists]
    /\ sim_pc = "ready"
    /\ sim_out = <<>>
    /\ sim_calls = <<>>
    /\ sim_raised = FALSE
    /\ AtRestExcept("sim")

\* simulator.compare(before, after, cases)
Compare ==
    /\ sim_pc = "ready"
    /\ \E ob \in ClientOutcomes(sim_in.cases), oa \in ClientOutcomes(sim_in.cases) :
          LET out == compare(sim, sim_in.before, sim_in.after, sim_in.cases, ob, oa)
          IN  /\ sim_out' = out.rows
              /\ sim_calls' = out.calls
              /\ sim_raised' = out.raised
    /\ sim_pc' = "done"
    /\ UNCHANGED <<sim, sim_in>>
    /\ UNCHANGED <<aggVars, genVars, sidVars, diffVars, condVars, arnVars, cliVars>>

NextSim == Compare

SpecSim == InitSim /\ [][NextSim]_vars

(***************************************************************************)
(* The diff as a state machine                                             *)
(***************************************************************************)
\* The documents of the simulator, and documents that also use ec2.
DiffDocs ==
    BeforeDocs \cup
    { PolicyDoc(<<SimStatement("Allow", <<"ec2:RunInstances">>, <<"*">>), x>>) :
        x \in SimStatements }

\* top_n of as_markdown
TopN == {1, 2}

\* PolicyDiff(before=..., after=...)
InitDiff ==
    /\ diff \in { PolicyDiff(b, a) : b \in DiffDocs, a \in DiffDocs }
    /\ diff_pc = "ready"
    /\ diff_out = [statementDelta |-> 0, allowedActionDelta |-> 0,
                   resourceReductionRatio |-> FloatZero,
                   top_n |-> 0, topServiceChanges |-> <<>>]
    /\ AtRestExcept("diff")

\* The caller reads statement_delta(), allowed_action_delta(),
\* resource_reduction_ratio() and, as as_markdown does,
\* _top_service_changes(top_n).
ReadMetrics ==
    /\ diff_pc = "ready"
    /\ \E top_n \in TopN :
          diff_out' = [ statementDelta |-> statement_delta(diff),
                        allowedActionDelta |-> allowed_action_delta(diff),
                        resourceReductionRatio |-> resource_reduction_ratio(diff),
                        top_n |-> top_n,
                        topServiceChanges |-> _top_service_changes(diff, top_n) ]
    /\ diff_pc' = "done"
    /\ UNCHANGED diff
    /\ UNCHANGED <<aggVars, genVars, sidVars, simVars, condVars, arnVars, cliVars>>

NextDiff == ReadMetrics

SpecDiff == InitDiff /\ [][NextDiff]_vars

(***************************************************************************)
(* The condition reducer as a state machine                                *)
(***************************************************************************)
MaxConditions == 3

\* The values of an operator: three strings, two lists, two numbers.
ConditionValues ==
    { StrValue("vpc-1"), StrValue("vpc-2"), StrValue("vpc-3"),
      ListValue(<<"vpc-1", "vpc-3">>), ListValue(<<"vpc-2">>),
      IntValue("1"), IntValue("2") }

\* Condition maps with one operator, and one map with two.
ConditionMaps ==
    { [op \in {"StringEquals"} |-> v] : v \in ConditionValues }
       \cup { [op \in {"StringLike"} |-> StrValue("vpc-1")],
              [op \in {"StringEquals", "StringLike"} |-> StrValue("vpc-2")] }

InitMerge ==
    /\ cond_in \in UNION { [1..n -> ConditionMaps] : n \in 0..MaxConditions }
    /\ cond_pc = "ready"
    /\ cond_out = EmptyDict
    /\ AtRestExcept("cond")

\* ConditionReducer().merge(cond_in)
Merge ==
    /\ cond_pc = "ready"
    /\ cond_out' = merge(cond_in)
    /\ cond_pc' = "done"
    /\ UNCHANGED cond_in
    /\ UNCHANGED <<aggVars, genVars, sidVars, simVars, diffVars, arnVars, cliVars>>

NextMerge == Merge

SpecMerge == InitMerge /\ [][NextMerge]_vars

(***************************************************************************)
(* The rule registry as a state machine                                    *)
(***************************************************************************)
MaxRegistrations == 2

\* Events of a service with two default extractors modelled, of a service
\* with another default extractor, of a service only callers register
\* rules for, and of a service nobody registers.
InferenceEvents ==
    { InferenceEvent(service, params, arns) :
        service \in {"s3", "dynamodb", "sqs", "custom", "unknownservice"},
        params \in { [k \in {} |-> ""],
                     [k \in {"bucketName"} |-> "example"],
                     [bucketName |-> "example", key |-> "object.txt"],
                     [k \in {"tableName"} |-> "Orders"] },
        arns \in { <<>>, <<"arn:ex/b">> } }

\* The extractors callers register: one that finds nothing, one that
\* returns an identifier.
CallerExtractors == { FixedExtractor({}), FixedExtractor({"arn:ex/custom"}) }

\* The number of extractors registered on top of the defaults.
registered_count(self) ==
    LET counts[S \in SUBSET DOMAIN self.service_rules] ==
            IF S = {} THEN 0
            ELSE LET k == CHOOSE x \in S : TRUE
                 IN  Len(self.service_rules[k]) + counts[S \ {k}]
    IN  counts[DOMAIN self.service_rules] - Cardinality(RegisteredServices)

InitInfer ==
    /\ arn = ArnRuleRegistry
    /\ arn_in \in InferenceEvents
    /\ arn_pc = "ready"
    /\ arn_out = {}
    /\ AtRestExcept("arn")

\* registry.register(service, extractor)
Register ==
    /\ arn_pc = "ready"
    /\ registered_count(arn) < MaxRegistrations
    /\ \E service \in {"s3", "custom"}, extractor \in CallerExtractors :
          arn' = register_rule(arn, service, extractor)
    /\ UNCHANGED <<arn_in, arn_pc, arn_out>>
    /\ UNCHANGED <<aggVars, genVars, sidVars, simVars, diffVars, condVars, cliVars>>

\* registry.infer(arn_in)
Infer ==
    /\ arn_pc = "ready"
    /\ arn_out' = infer(arn, arn_in)
    /\ arn_pc' = "done"
    /\ UNCHANGED <<arn, arn_in>>
    /\ UNCHANGED <<aggVars, genVars, sidVars, simVars, diffVars, condVars, cliVars>>

NextInfer == Register \/ Infer

SpecInfer == InitInfer /\ [][NextInfer]_vars

(***************************************************************************)
(* The diff command as a state machine                                     *)
(***************************************************************************)
\* The after policies of the command: no statement, or one.
CliDocs == { PolicyDoc(<<>>) } \cup { PolicyDoc(<<x>>) : x \in SimStatements }

\* --deny-threshold, a float: the fractions -1/2, 1/4 and 1.
DenyThresholds == { [num |-> -1, den |-> 2], [num |-> 1, den |-> 4], [num |-> 1, den |-> 1] }

\* The time of the run.
Now == "2026-01-01T00:00:00Z"

\* .iamlp-allow.json: absent, not JSON, waiving an action pattern, waiving
\* a resource pattern, without an owner, expired, with an expiresAt that is
\* no timestamp, with an expiresAt before createdAt, and with timestamps
\* that carry no time zone.
AllowlistFiles ==
    { AbsentFile,
      UnreadableFile,
      AllowlistFile(<<"s3:Get*">>, <<>>, "pilot", "team", "2025-01-01T00:00:00Z", "2999-01-01T00:00:00Z"),
      AllowlistFile(<<>>, <<"Den*">>, "pilot", "team", "2025-01-01T00:00:00Z", "2999-01-01T00:00:00Z"),
      AllowlistFile(<<"s3:Get*">>, <<>>, "pilot", "", "2025-01-01T00:00:00Z", "2999-01-01T00:00:00Z"),
      AllowlistFile(<<"s3:Get*">>, <<>>, "pilot", "team", "2025-01-01T00:00:00Z", "2025-06-30T00:00:00Z"),
      AllowlistFile(<<"s3:Get*">>, <<>>, "pilot", "team", "2025-01-01T00:00:00Z", "soon"),
      AllowlistFile(<<"s3:Get*">>, <<>>, "pilot", "team", "2025-01-01T00:00:00Z", "2024-02-30T00:00:00Z"),
      AllowlistFile(<<"s3:Get*">>, <<>>, "pilot", "team", "2025-01-01T00:00:00Z", "2024-12-31T23:59:59Z"),
      AllowlistFile(<<"s3:Get*">>, <<>>, "pilot", "team", "2025-01-01", "2999-01-01") }

\* The before policies of the command.
CliBeforeDocs ==
    { PolicyDoc(<<>>),
      PolicyDoc(<<SimStatement("Allow", <<"s3:GetObject">>, <<"arn:ex/bucket/*">>)>>),
      PolicyDoc(<<SimStatement("Allow", <<"s3:PutObject">>, <<"*">>)>>),
      PolicyDoc(<<SimStatement("Deny", <<"s3:GetObject">>, <<"*">>)>>) }

\* What the command finds around it: .iamlp-allow.json, whether CI is set,
\* --format ("" when the option is not given) and default_format of the
\* settings.
CliEnv(allowlist_file, ci, format, default_format) ==
    [ allowlist_file |-> allowlist_file, ci |-> ci, format |-> format,
      default_format |-> default_format ]

CliEnvs ==
    { CliEnv(f, FALSE, "", "json") : f \in AllowlistFiles }
       \cup { CliEnv(f, TRUE, "", "json") :
                f \in { x \in AllowlistFiles : x.kind = "object" /\ x.owner # "" /\ x.actions # <<>>
                                                  /\ x.createdAt = "2025-01-01T00:00:00Z"
                                                  /\ x.expiresAt \in {"2999-01-01T00:00:00Z", "2025-06-30T00:00:00Z"} } }
       \cup { CliEnv(AbsentFile, FALSE, "", "xml"), CliEnv(AbsentFile, FALSE, "md", "xml") }

\* The runs of the command: every after policy, threshold and evaluation
\* where no allowlist file is present and the format is json, and every
\* surrounding with the default threshold and local evaluation.
CliRuns ==
    [ before : CliBeforeDocs, after : CliDocs, cases : ProbeLists,
      deny_threshold : DenyThresholds, boto3 : BOOLEAN,
      env : {CliEnv(AbsentFile, FALSE, "", "json")} ]
       \cup [ before : CliBeforeDocs, after : AfterDocs, cases : ProbeLists,
               deny_threshold : {[num |-> 1, den |-> 4]}, boto3 : {FALSE},
               env : CliEnvs ]

InitCli ==
    /\ cli_in \in CliRuns
    /\ cli_pc = "ready"
    /\ cli_report = <<>>
    /\ cli_denies = [before |-> 0, after |-> 0]
    /\ cli_exit = None
    /\ AtRestExcept("cli")

\* _cmd_diff up to and including output.emit(payload, ...): compare, the
\* counts, load_allowlist, the loop over the rows, and emit with
\* fmt = args.format or settings.default_format.
DiffEmit ==
    /\ cli_pc = "ready"
    /\ \E ob \in ClientOutcomes(cli_in.cases), oa \in ClientOutcomes(cli_in.cases) :
          LET simulator == PolicySimulator(None, cli_in.boto3)
              out == compare(simulator, cli_in.before, cli_in.after, cli_in.cases, ob, oa)
              before_denies == count_before_denies(out.rows)
              after_denies == count_after_denies(out.rows)
              allowlist == load_allowlist(cli_in.env.allowlist_file, cli_in.env.ci, Now)
              fmt == IF cli_in.env.format # "" THEN cli_in.env.format
                     ELSE cli_in.env.default_format
          IN  IF out.raised
              THEN /\ cli_pc' = "raised"
                   /\ UNCHANGED <<cli_report, cli_denies>>
              ELSE IF allowlist.raised \/ emit_raises(fmt)
              THEN /\ cli_pc' = "raised"
                   /\ cli_denies' = [before |-> before_denies, after |-> after_denies]
                   /\ UNCHANGED cli_report
              ELSE /\ cli_pc' = "emitted"
                   /\ cli_denies' = [before |-> before_denies, after |-> after_denies]
                   /\ cli_report' = Append(cli_report,
                                           diff_payload(out.rows, before_denies, after_denies,
                                                        allowlist.value))
    /\ UNCHANGED <<cli_in, cli_exit>>
    /\ UNCHANGED <<aggVars, genVars, sidVars, simVars, diffVars, condVars, arnVars>>

\* _cmd_diff after output.emit: the return statements
DiffReturn ==
    /\ cli_pc = "emitted"
    /\ cli_exit' = diff_exit_code(cli_denies.before, cli_denies.after, cli_in.deny_threshold)
    /\ cli_pc' = "done"
    /\ UNCHANGED <<cli_in, cli_report, cli_denies>>
    /\ UNCHANGED <<aggVars, genVars, sidVars, simVars, diffVars, condVars, arnVars>>

\* app(): an exception of _cmd_diff that is no CLIError is printed and the
\* command returns 1.
DiffFail ==
    /\ cli_pc = "raised"
    /\ cli_exit' = 1
    /\ cli_pc' = "failed"
    /\ UNCHANGED <<cli_in, cli_report, cli_denies>>
    /\ UNCHANGED <<aggVars, genVars, sidVars, simVars, diffVars, condVars, arnVars>>

NextCli == DiffEmit \/ DiffReturn \/ DiffFail

SpecCli == InitCli /\ [][NextCli]_vars

(***************************************************************************)
(* Properties of the aggregator                                            *)
(***************************************************************************)
\* The service-prefixed name of an event's action.
PrefixedName(e) ==
    IF \E i \in 1..Len(e.action) : SubSeq(e.action, i, i) = ":"
    THEN e.action
    ELSE e.aws_service \o ":" \o e.action

EventKey(e) == <<e.principal_arn, e.aws_service, PrefixedName(e)>>

\* The event passes the principal filter and the exclude patterns.
Qualifies(e) ==
    /\ (agg.principal_pattern # "" => re_search(agg.principal_pattern, e.principal_arn))
    /\ \A i \in DOMAIN agg.exclude_patterns :
          ~fnmatch(PrefixedName(e), agg.exclude_patterns[i])

\* The positions of the qualifying events that carry key k.
QualifyingAt(k) ==
    {i \in DOMAIN events : Qualifies(events[i]) /\ EventKey(events[i]) = k}

\* Some allow pattern matches key k or a resource observed for it.
Waived(k) ==
    \/ \E i \in DOMAIN agg.allow_patterns : fnmatch(k[3], agg.allow_patterns[i])
    \/ \E i \in DOMAIN agg.allow_principals : fnmatch(k[1], agg.allow_principals[i])
    \/ \E i \in DOMAIN agg.allow_resource_patterns :
          \E j \in QualifyingAt(k) :
             \E r \in DOMAIN events[j].resource_arns :
                fnmatch(events[j].resource_arns[r], agg.allow_resource_patterns[i])

\* Key k survives the filters applied after the fold.
Survives(k) ==
    /\ Cardinality(QualifyingAt(k)) >= 1
    /\ Cardinality(QualifyingAt(k)) >= agg.min_count
    /\ ~Waived(k)

\* C1: aggregate returns exactly one record per (principal, service,
\* normalized action) key that survives the filters, its count is the number
\* of qualifying events with that key, and the bare and the prefixed form of
\* an action fold into the same record; during the fold the dict holds
\* exactly one record per qualifying key seen so far.
C1_OneRecordPerKey ==
    /\ \A i \in DOMAIN states :
          /\ states[i].count = Cardinality(QualifyingAt(record_key(states[i])))
          /\ states[i].count >= 1
          /\ \A j \in DOMAIN states :
                record_key(states[i]) = record_key(states[j]) => i = j
    /\ \A n \in DOMAIN events :
          Qualifies(events[n]) =>
             \E i \in DOMAIN states : record_key(states[i]) = EventKey(events[n])
    /\ agg_pc = "done" =>
          /\ \A i \in DOMAIN records :
                /\ Survives(record_key(records[i]))
                /\ records[i].count = Cardinality(QualifyingAt(record_key(records[i])))
                /\ \A j \in DOMAIN records :
                      record_key(records[i]) = record_key(records[j]) => i = j
          /\ \A n \in DOMAIN events :
                Survives(EventKey(events[n])) =>
                   \E i \in DOMAIN records : record_key(records[i]) = EventKey(events[n])

\* C1 witness: the bare and the prefixed form of s3:GetObject, from one
\* principal, were returned as a single record with count 2.
C1_Witness ==
    /\ agg_pc = "done"
    /\ Len(events) = 2
    /\ events[1].action = "GetObject"
    /\ events[2].action = "s3:GetObject"
    /\ events[1].principal_arn = events[2].principal_arn
    /\ Len(records) = 1
    /\ records[1].count = 2
    /\ records[1].action = "s3:GetObject"

\* The condition maps of the qualifying events with key k among the first n
\* events, in arrival order.
RECURSIVE ConditionsSeen(_, _)
ConditionsSeen(k, n) ==
    IF n = 0 THEN <<>>
    ELSE ConditionsSeen(k, n - 1) \o
         (IF n \in QualifyingAt(k) THEN events[n].conditions ELSE <<>>)

\* C2: after aggregate a record's condition list holds, in arrival order,
\* the condition maps of every qualifying event with the record's key.
C2_ConditionsAppended ==
    agg_pc = "done" =>
       \A i \in DOMAIN records :
          records[i].conditions = ConditionsSeen(record_key(records[i]), Len(events))

\* C3: every returned record satisfies all configured filters, min_count is
\* at least 1, and a principal filter that matches no event gives the empty
\* list.
C3_RecordsSatisfyFilters ==
    agg_pc = "done" =>
       /\ agg.min_count >= 1
       /\ \A i \in DOMAIN records :
             LET rec == records[i]
             IN  /\ (agg.principal_pattern # "" =>
                        re_search(agg.principal_pattern, rec.principal_arn))
                 /\ \A x \in DOMAIN agg.exclude_patterns :
                       ~fnmatch(rec.action, agg.exclude_patterns[x])
                 /\ rec.count >= agg.min_count
                 /\ \A x \in DOMAIN agg.allow_patterns :
                       ~fnmatch(rec.action, agg.allow_patterns[x])
                 /\ \A x \in DOMAIN agg.allow_principals :
                       ~fnmatch(rec.principal_arn, agg.allow_principals[x])
                 /\ \A x \in DOMAIN agg.allow_resource_patterns :
                       \A r \in DOMAIN rec.resources :
                          ~fnmatch(rec.resources[r], agg.allow_resource_patterns[x])
                 /\ \A n \in QualifyingAt(record_key(rec)) :
                       \A r \in DOMAIN events[n].resource_arns :
                          \E q \in DOMAIN rec.resources :
                             rec.resources[q] = events[n].resource_arns[r]
       /\ ((agg.principal_pattern # "" /\
            \A n \in DOMAIN events :
               ~re_search(agg.principal_pattern, events[n].principal_arn))
           => records = <<>>)

\* C3 witness: a record whose count reached min_count was removed because
\* one of its observed resources matches an allow pattern, while another
\* record was returned.
C3_Witness ==
    /\ agg_pc = "done"
    /\ agg.allow_resource_patterns # <<>>
    /\ Len(records) = 1
    /\ \E i \in DOMAIN states :
          /\ states[i].count >= agg.min_count
          /\ states[i].action = "s3:GetObject"
          /\ \A j \in DOMAIN records : record_key(records[j]) # record_key(states[i])

\* The sequence seq rearranged by the permutation f of its positions.
Rearranged(seq, f) == [i \in DOMAIN seq |-> seq[f[i]]]

\* What C4 compares of a record list: keys, counts and last-seen values.
Summary(recs) ==
    [i \in DOMAIN recs |->
        <<record_key(recs[i]), recs[i].count, recs[i].last_seen>>]

\* C4: the returned list is in ascending (principal, service, action)
\* order, and every permutation of the same events gives the same sequence
\* of keys, counts and last-seen values.
C4_OrderIndependent ==
    agg_pc = "done" =>
       /\ \A i, j \in DOMAIN records :
             i < j => TupleLess(record_key(records[i]), record_key(records[j]))
       /\ \A f \in Permutations(DOMAIN events) :
             Summary(aggregate(agg, Rearranged(events, f))) = Summary(records)

\* C4 witness: two records were returned although the events arrived in
\* descending key order and with descending timestamps.
C4_Witness ==
    /\ agg_pc = "done"
    /\ Len(events) = 2
    /\ Len(records) = 2
    /\ TupleLess(EventKey(events[2]), EventKey(events[1]))
    /\ events[2].event_time < events[1].event_time

\* C5: with a table configured and update_item raising for any subset of
\* the records, aggregate raises nothing and returns the list it returns
\* with no table; update_item is attempted exactly once per returned record,
\* in output order, and for no other record.
C5_UpsertBestEffort ==
    agg_pc = "done" =>
       /\ ~raised
       /\ records = aggregate([agg EXCEPT !.table = FALSE], events)
       /\ upsert_calls =
             IF agg.table
             THEN [i \in DOMAIN records |-> upsert_key(records[i])]
             ELSE <<>>
       /\ Cardinality(table_items) <= Len(upsert_calls)

\* C5 witness: a record was dropped by an allow pattern, one record was
\* returned and the update_item call for it raised.
C5_Witness ==
    /\ agg_pc = "done"
    /\ agg.table
    /\ Len(states) = 2
    /\ Len(records) = 1
    /\ Len(upsert_calls) = 1
    /\ table_items = {}

\* The largest timestamp among the qualifying events with key k.
MaxTimeSeen(k) ==
    CHOOSE t \in {events[n].event_time : n \in QualifyingAt(k)} :
       \A n \in QualifyingAt(k) : events[n].event_time <= t

\* C6: a record's last-seen is the maximum timestamp of the events folded
\* into it, it never decreases from one fold step to the next, and two
\* events give count 2 with the later timestamp.
C6_LastSeenIsMax ==
    /\ [](\A i \in DOMAIN states :
             states[i].last_seen = MaxTimeSeen(record_key(states[i])))
    /\ [][\A i \in DOMAIN states :
             /\ i \in DOMAIN states'
             /\ record_key(states'[i]) = record_key(states[i])
             /\ states'[i].last_seen >= states[i].last_seen
             /\ states'[i].count >= states[i].count]_vars

\* C6 witness: two events with the same key were folded, the older one
\* last; the record has count 2 and the timestamp of the first.
C6_Witness ==
    /\ Len(events) = 2
    /\ Len(states) = 1
    /\ events[2].event_time < events[1].event_time
    /\ states[1].count = 2
    /\ states[1].last_seen = events[1].event_time

\* xs is a prefix of ys.
IsPrefix(xs, ys) == Len(xs) <= Len(ys) /\ SubSeq(ys, 1, Len(xs)) = xs

\* The resources of the qualifying events with key k among the first n
\* events, in arrival order, repeats included.
RECURSIVE ResourcesSeen(_, _)
ResourcesSeen(k, n) ==
    IF n = 0 THEN <<>>
    ELSE ResourcesSeen(k, n - 1) \o
         (IF n \in QualifyingAt(k) THEN events[n].resource_arns ELSE <<>>)

\* xs without the later occurrences of its elements.
FirstSeen(xs) ==
    SelectSeq([i \in DOMAIN xs |-> [at |-> i, value |-> xs[i]]],
              LAMBDA e : \A j \in 1..(e.at - 1) : xs[j] # e.value)

\* C22: at every step of the fold a record's count, resource list and
\* condition list never decrease or shrink; the resource list holds no
\* identifier twice and keeps the identifiers in first-seen order.
C22_FoldMonotonic ==
    /\ [](\A i \in DOMAIN states :
             /\ \A a, b \in DOMAIN states[i].resources :
                   a # b => states[i].resources[a] # states[i].resources[b]
             /\ LET seen == FirstSeen(ResourcesSeen(record_key(states[i]), Len(events)))
                IN  states[i].resources = [j \in DOMAIN seen |-> seen[j].value])
    /\ [][\A i \in DOMAIN states :
             /\ i \in DOMAIN states'
             /\ record_key(states'[i]) = record_key(states[i])
             /\ states'[i].count >= states[i].count
             /\ IsPrefix(states[i].resources, states'[i].resources)
             /\ IsPrefix(states[i].conditions, states'[i].conditions)]_vars

\* C22 witness: a record that had seen one resource was folded with an
\* event naming that resource and a new one; it lists both, once each.
C22_Witness ==
    /\ Len(events) = 2
    /\ Len(states) = 1
    /\ events[1].resource_arns = <<"arn:ex/b">>
    /\ events[2].resource_arns = <<"arn:ex/b", "arn:ex/a">>
    /\ states[1].count = 2
    /\ states[1].resources = <<"arn:ex/b", "arn:ex/a">>

(***************************************************************************)
(* Properties of the generator                                             *)
(***************************************************************************)
\* The statements of a list of documents, in order.
RECURSIVE StatementsOf(_)
StatementsOf(docs) ==
    IF docs = <<>> THEN <<>>
    ELSE Head(docs).statements \o StatementsOf(Tail(docs))

\* The statements build produced: the returned document, then the overflow.
AllStatements == gen_out.statements \o StatementsOf(gen.additional_policies)

\* build was asked for the baseline and a record of service lambda is there.
BaselineDue ==
    gen.include_logs_baseline /\ \E i \in DOMAIN gen_in : gen_in[i].service = "lambda"

\* The statements synthesized from the records.
Synthesized ==
    IF BaselineDue /\ AllStatements # <<>>
    THEN SubSeq(AllStatements, 1, Len(AllStatements) - 1)
    ELSE AllStatements

\* (service, resource scope, merged conditions) of a record.
GroupOf(rec) == <<rec.service, _determine_resources(gen, rec), merge(rec.conditions)>>

\* seq is strictly ascending: sorted and free of duplicates.
StrictlyAscending(seq) ==
    \A i \in DOMAIN seq : i < Len(seq) => StrLess(seq[i], seq[i + 1])

BuildReturned == gen_pc = "done" /\ ~gen_raised

\* C7: build emits exactly one statement per distinct (service, resource
\* scope, conditions) among the records, and the statement's action list is
\* the ascending, duplicate-free union of the actions of the group.
C7_OneStatementPerGroup ==
    BuildReturned =>
       LET groups == {GroupOf(gen_in[i]) : i \in DOMAIN gen_in}
       IN  /\ Len(Synthesized) = Cardinality(groups)
           /\ \A g \in groups :
                 LET acts == {gen_in[i].action : i \in {n \in DOMAIN gen_in : GroupOf(gen_in[n]) = g}}
                 IN  Cardinality({j \in DOMAIN Synthesized :
                         /\ Synthesized[j].resources = g[2]
                         /\ Synthesized[j].conditions = g[3]
                         /\ Elements(Synthesized[j].actions) = acts}) = 1
           /\ \A j \in DOMAIN Synthesized : StrictlyAscending(Synthesized[j].actions)

\* C7 witness: s3:PutObject and s3:GetObject, in that order, with the same
\* resources and no conditions, became one statement with both actions.
C7_Witness ==
    /\ BuildReturned
    /\ Len(gen_in) = 2
    /\ gen_in[1].action = "s3:PutObject"
    /\ gen_in[2].action = "s3:GetObject"
    /\ gen_in[1].conditions = <<>>
    /\ gen_in[1].resources # <<>>
    /\ Len(AllStatements) = 1
    /\ AllStatements[1].actions = <<"s3:GetObject", "s3:PutObject">>

\* C8: a record with observed resources gets a statement whose resource
\* list is exactly those resources, sorted and without duplicates, in both
\* modes; a record without resources gets ["*"] in mode "actions".
C8_ObservedResources ==
    BuildReturned =>
       \A i \in DOMAIN gen_in :
          \E j \in DOMAIN Synthesized :
             /\ \E a \in DOMAIN Synthesized[j].actions :
                   Synthesized[j].actions[a] = gen_in[i].action
             /\ Synthesized[j].conditions = merge(gen_in[i].conditions)
             /\ IF gen_in[i].resources # <<>>
                THEN /\ Elements(Synthesized[j].resources) = Elements(gen_in[i].resources)
                     /\ StrictlyAscending(Synthesized[j].resources)
                ELSE gen.mode = "actions" => Synthesized[j].resources = <<"*">>

\* C8 witness: in mode "resources" a record that observed b, a, b got the
\* resource list a, b.
C8_Witness ==
    /\ BuildReturned
    /\ gen.mode = "resources"
    /\ Len(gen_in) = 1
    /\ gen_in[1].resources = <<"arn:ex/b", "arn:ex/a", "arn:ex/b">>
    /\ AllStatements[1].resources = <<"arn:ex/a", "arn:ex/b">>

\* C9: in mode "resources" a record without observed resources, whose
\* action is scoping-capable and whose service has a registered rule, gets
\* a statement with a concrete resource instead of the wildcard.
C9_InferredResource ==
    BuildReturned =>
       \A i \in DOMAIN gen_in :
          ( /\ gen.mode = "resources"
            /\ gen_in[i].resources = <<>>
            /\ allows_scoping(gen_in[i].action)
            /\ gen_in[i].service \in RegisteredServices )
          => \A j \in DOMAIN Synthesized :
                ( /\ Synthesized[j].conditions = merge(gen_in[i].conditions)
                  /\ gen_in[i].action \in Elements(Synthesized[j].actions) )
                => "*" \notin Elements(Synthesized[j].resources)

\* C10: every ordering of the same records gives the same output: the
\* same returned document, the same overflow documents, the same outcome.
C10_BuildOrderIndependent ==
    gen_pc = "done" =>
       \A f \in Permutations(DOMAIN gen_in) :
          LET again == build(
                  PolicyGenerator(gen.mode, gen.include_logs_baseline, gen.max_statements),
                  Rearranged(gen_in, f))
          IN  /\ again.doc = gen_out
              /\ again.self.additional_policies = gen.additional_policies
              /\ again.raised = gen_raised

\* C10 witness: with a limit of one statement per document, the second
\* record's statement is in the returned document and the first record's
\* statement in the overflow.
C10_Witness ==
    /\ BuildReturned
    /\ Len(gen_in) = 2
    /\ gen.max_statements = 1
    /\ Len(gen.additional_policies) = 1
    /\ gen_in[1].action # gen_in[2].action
    /\ gen_in[2].action \in Elements(gen_out.statements[1].actions)
    /\ gen_in[1].action \in Elements(gen.additional_policies[1].statements[1].actions)

\* The documents build produced: the returned one, then the overflow.
Documents == <<gen_out>> \o gen.additional_policies

\* The full ordered statement list: what build returns with no limit set.
FullStatements ==
    build(PolicyGenerator(gen.mode, gen.include_logs_baseline, None), gen_in).doc.statements

\* Every document holds between 1 and max_statements statements, the
\* documents in order concatenate to the full list, and without a limit
\* there is a single document.
ChunksWithinLimit ==
    /\ StatementsOf(Documents) = FullStatements
    /\ gen.max_statements = None => gen.additional_policies = <<>>
    /\ gen.max_statements >= 1 =>
          \A d \in DOMAIN Documents :
             /\ Len(Documents[d].statements) >= 1
             /\ Len(Documents[d].statements) <= gen.max_statements
    /\ (gen.max_statements = 1 /\ Len(FullStatements) = 2) =>
          /\ gen_out.statements = <<FullStatements[1]>>
          /\ Len(gen.additional_policies) = 1
          /\ gen.additional_policies[1].statements = <<FullStatements[2]>>

\* C11 as stated: with a limit m >= 1 every document build produces holds
\* between 1 and m statements and the documents concatenate to the full
\* statement list; with no limit there is one document and no overflow.
C11_ChunksWithinLimit_AnyInput == BuildReturned => ChunksWithinLimit

\* C11, for a non-empty record list: with a limit m >= 1 every document
\* build produces holds between 1 and m statements and the documents
\* concatenate to the full statement list; with no limit there is one
\* document and no overflow; m = 1 and two groups give a primary of one
\* statement and one overflow document with the other.
C11_ChunksWithinLimit == (BuildReturned /\ gen_in # <<>>) => ChunksWithinLimit

\* C11 witness: three statements under a limit of two were split into a
\* primary document of two and one overflow document of one.
C11_Witness ==
    /\ BuildReturned
    /\ gen.max_statements = 2
    /\ Len(FullStatements) = 3
    /\ Len(gen_out.statements) = 2
    /\ Len(gen.additional_policies) = 1
    /\ Len(gen.additional_policies[1].statements) = 1

\* The fixed actions of the baseline statement.
BaselineActions == <<"logs:CreateLogGroup", "logs:CreateLogStream", "logs:PutLogEvents">>

\* The number of distinct (service, scope, conditions) groups of the input.
GroupCount == Cardinality({GroupOf(gen_in[i]) : i \in DOMAIN gen_in})

\* C12: build appends exactly one baseline statement, with the three fixed
\* logs actions, after all statements synthesized from the records, when
\* include_logs_baseline is set and some record has service lambda; it
\* appends none when the flag is unset or no record has that service.
C12_BaselineAppended ==
    BuildReturned =>
       IF gen.include_logs_baseline /\ \E i \in DOMAIN gen_in : gen_in[i].service = "lambda"
       THEN /\ Len(AllStatements) = GroupCount + 1
            /\ AllStatements[Len(AllStatements)].actions = BaselineActions
            /\ \A j \in 1..GroupCount :
                  \E i \in DOMAIN gen_in :
                     gen_in[i].action \in Elements(AllStatements[j].actions)
       ELSE /\ Len(AllStatements) = GroupCount
            /\ \A j \in DOMAIN AllStatements : AllStatements[j].actions # BaselineActions

\* C12 witness: with the flag set, a lambda record and an s3 record gave
\* two statements followed by the baseline statement.
C12_Witness ==
    /\ BuildReturned
    /\ gen.include_logs_baseline
    /\ Len(gen_in) = 2
    /\ gen_in[1].service = "lambda"
    /\ gen_in[2].service = "s3"
    /\ Len(AllStatements) = 3
    /\ AllStatements[3].actions = BaselineActions
    /\ AllStatements[3].sid = "logs_allow_001"

\* The service of the record a synthesized statement was made from.
ServiceOfStatement(st) ==
    CHOOSE sv \in { gen_in[i].service : i \in DOMAIN gen_in } :
       \E i \in DOMAIN gen_in :
          /\ gen_in[i].service = sv
          /\ \E a \in DOMAIN st.actions : st.actions[a] = gen_in[i].action
          /\ st.resources = _determine_resources(gen, gen_in[i])

\* <prefix>_allow_<k as three digits>
SidOf(prefix, k) ==
    prefix \o "_allow_" \o Digit(k \div 100) \o Digit((k \div 10) % 10) \o Digit(k % 10)

\* The service name with : and - replaced by _ and cut to 40 characters.
ClaimedPrefix(sv) == Truncate(StrReplace(StrReplace(sv, ":", "_"), "-", "_"), 40)

\* The number of the statement at j among the statements of its service.
RankInService(j) ==
    Cardinality({ n \in 1..j :
                    ServiceOfStatement(Synthesized[n]) = ServiceOfStatement(Synthesized[j]) })

\* The statement at j precedes the one at j + 1 in the composite key
\* (service, resources, JSON text of the conditions with sorted keys).
KeyAscends(j) ==
    LET sv == ServiceOfStatement(Synthesized[j])
        next == ServiceOfStatement(Synthesized[j + 1])
        fp == condition_fingerprint(Synthesized[j].conditions)
        fp_next == condition_fingerprint(Synthesized[j + 1].conditions)
    IN  \/ StrLess(sv, next)
        \/ /\ sv = next
           /\ TupleLess(Synthesized[j].resources, Synthesized[j + 1].resources)
        \/ /\ sv = next
           /\ Synthesized[j].resources = Synthesized[j + 1].resources
           /\ StrLess(fp, fp_next)

\* C25 as stated: statement ids are allocated in sorted composite-key order
\* with a counter per service that starts at 1 and increases by 1: the k-th
\* statement of a service has the id <prefix>_allow_<k as three digits>, the
\* prefix being the service name with : and - replaced by _ and cut to 40
\* characters, for every service name.
C25_PrefixIsServiceName ==
    BuildReturned =>
       \A j \in DOMAIN Synthesized :
          /\ Synthesized[j].sid
                = SidOf(ClaimedPrefix(ServiceOfStatement(Synthesized[j])), RankInService(j))
          /\ j + 1 \in DOMAIN Synthesized => KeyAscends(j)

\* C25 amended: statement ids are allocated in sorted composite-key order
\* (service, then resources, then the JSON text of the conditions) with a
\* counter per service that starts at 1 and increases by 1: the k-th
\* statement of a service has the id <prefix>_allow_<k as three digits>, the
\* prefix being the service name with : and - replaced by _ and cut to 40
\* characters, or svc when the service name is empty.
C25_SidAllocation ==
    BuildReturned =>
       \A j \in DOMAIN Synthesized :
          LET sv == ServiceOfStatement(Synthesized[j])
              prefix == IF sv = "" THEN "svc" ELSE ClaimedPrefix(sv)
          IN  /\ Synthesized[j].sid = SidOf(prefix, RankInService(j))
              /\ j + 1 \in DOMAIN Synthesized => KeyAscends(j)

\* C25 witness: the two statements of the service with the empty name carry
\* svc_allow_001 and svc_allow_002, the narrower key first.
C25_Witness ==
    /\ BuildReturned
    /\ Len(Synthesized) = 2
    /\ ServiceOfStatement(Synthesized[1]) = ""
    /\ Synthesized[1].sid = "svc_allow_001"
    /\ Synthesized[1].resources = <<"*">>
    /\ Synthesized[2].sid = "svc_allow_002"
    /\ Synthesized[2].resources = <<"arn:ex/a">>

\* The resources in the scope of a record: the observed ones, or * when it
\* has none.
ScopeOf(rec) == IF rec.resources = <<>> THEN {"*"} ELSE Elements(rec.resources)

\* C26: synthesis never removes an observed access: for every record and
\* every resource in its scope, local evaluation of the probe (record
\* action, resource) is Allow on at least one document build produced, in
\* both modes and for every chunk size >= 1.
C26_NoAccessRemoved ==
    BuildReturned =>
       \A i \in DOMAIN gen_in :
          \A r \in ScopeOf(gen_in[i]) :
             \E d \in DOMAIN Documents :
                local_decision(Documents[d], SimulationCase(gen_in[i].action, r, NoneDict))
                   = "Allow"

\* C26 witness: with one statement per document, the s3:GetObject record
\* on arn:ex/b is allowed by an overflow document and not by the primary.
C26_Witness ==
    /\ BuildReturned
    /\ gen.max_statements = 1
    /\ Len(Documents) = 2
    /\ \E i \in DOMAIN gen_in :
          /\ gen_in[i].action = "s3:GetObject"
          /\ gen_in[i].resources = <<"arn:ex/b">>
          /\ local_decision(gen_out, SimulationCase("s3:GetObject", "arn:ex/b", NoneDict)) = "Deny"
          /\ local_decision(Documents[2], SimulationCase("s3:GetObject", "arn:ex/b", NoneDict)) = "Allow"

\* C27: within the output of one build call, primary and overflow documents
\* together and the baseline statement included, no two statements carry
\* the same statement id, whatever the service names are.
C27_UniqueSids ==
    BuildReturned =>
       \A i, j \in DOMAIN AllStatements :
          i # j => AllStatements[i].sid # AllStatements[j].sid

\* C30: for every non-empty record list and every integer limit, zero and
\* negative ones included, build returns a primary document without
\* raising and loses no statement: a non-positive limit behaves like an
\* unset one.
C30_NonPositiveLimit ==
    (gen_pc = "done" /\ gen_in # <<>>) =>
       /\ ~gen_raised
       /\ AllStatements = FullStatements
       /\ gen.max_statements <= 0 => gen_out.statements = FullStatements

\* C29: every statement build produces has effect Allow and, apart from the
\* baseline statement, every action it lists is the action of some input
\* record of the statement's service: no action is granted that does not
\* occur in the usage records.
C29_OnlyObservedActions ==
    BuildReturned =>
       /\ \A j \in DOMAIN AllStatements : AllStatements[j].effect = "Allow"
       /\ \A j \in DOMAIN Synthesized :
             \E sv \in { gen_in[i].service : i \in DOMAIN gen_in } :
                \A a \in DOMAIN Synthesized[j].actions :
                   \E i \in DOMAIN gen_in :
                      /\ gen_in[i].service = sv
                      /\ gen_in[i].action = Synthesized[j].actions[a]
                      /\ GroupOf(gen_in[i])[2] = Synthesized[j].resources

\* C29 witness: a lambda record and an s3 record gave their two statements
\* and the baseline, all three with effect Allow.
C29_Witness ==
    /\ BuildReturned
    /\ BaselineDue
    /\ Len(Synthesized) = 2
    /\ Len(AllStatements) = 3
    /\ Synthesized[1].actions = <<"lambda:InvokeFunction">>
    /\ Synthesized[2].actions = <<"s3:GetObject">>
    /\ \A j \in DOMAIN AllStatements : AllStatements[j].effect = "Allow"

(***************************************************************************)
(* Properties of the statement id builder                                  *)
(***************************************************************************)
\* C13: every statement id is at most 128 characters long, whatever the
\* length of the service name (200 characters included) and the counter.
C13_SidAtMost128 == sid_pc = "done" => Len(sid_out) <= 128

\* C13 witness: a service name of 200 characters got an id made of its
\* first 40 characters, "_allow_" and the counter.
C13_Witness ==
    /\ sid_pc = "done"
    /\ Len(sid_in[1]) = 200
    /\ sid_in[2] = 12
    /\ sid_out = Repeat("s", 40) \o "_allow_012"

(***************************************************************************)
(* Properties of repeated build calls                                      *)
(***************************************************************************)
\* What the last call gives on a generator that was never used before.
FreshBuild ==
    build(PolicyGenerator(gen.mode, gen.include_logs_baseline, gen.max_statements), gen_in)

\* C14: build on an empty list returns a document with zero statements
\* and leaves no overflow, also after a call that produced overflow; after
\* any sequence of calls additional_policies holds exactly the overflow
\* documents of the most recent call.
C14_OverflowOfLastCall ==
    gen_pc = "done" =>
       /\ gen_in = <<>> =>
             /\ ~gen_raised
             /\ gen_out.statements = <<>>
             /\ gen.additional_policies = <<>>
       /\ gen.additional_policies = FreshBuild.self.additional_policies
       /\ gen_out = FreshBuild.doc

\* C14 witness: a generator holding overflow documents from its previous
\* call was given the empty list and holds no overflow afterwards.
C14_Witness ==
    /\ gen_pc = "done"
    /\ gen_calls >= 2
    /\ gen_before # <<>>
    /\ gen_in = <<>>
    /\ gen_out.statements = <<>>
    /\ gen.additional_policies = <<>>

(***************************************************************************)
(* Properties of the simulator                                             *)
(***************************************************************************)
\* pattern ends in * and text starts with what precedes the *.
PrefixWildcardMatch(pattern, text) ==
    /\ pattern # ""
    /\ SubSeq(pattern, Len(pattern), Len(pattern)) = "*"
    /\ Len(text) >= Len(pattern) - 1
    /\ SubSeq(text, 1, Len(pattern) - 1) = SubSeq(pattern, 1, Len(pattern) - 1)

\* Some Allow statement of doc has an action equal to, or a wildcard
\* prefix of, the probe's action.
SomeAllowedAction(doc, probe) ==
    \E j \in DOMAIN doc.statements :
       /\ doc.statements[j].effect = "Allow"
       /\ \E a \in DOMAIN doc.statements[j].actions :
             \/ doc.statements[j].actions[a] = probe.action
             \/ PrefixWildcardMatch(doc.statements[j].actions[a], probe.action)

\* Some Allow statement of doc lists the probe's action itself and a
\* resource pattern equal to, or a wildcard prefix of, the probe's resource.
ExactlyGranted(doc, probe) ==
    \E j \in DOMAIN doc.statements :
       /\ doc.statements[j].effect = "Allow"
       /\ \E a \in DOMAIN doc.statements[j].actions :
             doc.statements[j].actions[a] = probe.action
       /\ \E r \in DOMAIN doc.statements[j].resources :
             \/ doc.statements[j].resources[r] = probe.resource
             \/ PrefixWildcardMatch(doc.statements[j].resources[r], probe.resource)

\* What the claim says of one local decision.
LocalDecisionAsClaimed(doc, probe, decision) ==
    /\ decision \in {"Allow", "Deny"}
    /\ ~SomeAllowedAction(doc, probe) => decision = "Deny"
    /\ ExactlyGranted(doc, probe) => decision = "Allow"

\* The k-th document of the call (1 = before, 2 = after) was evaluated
\* locally: no client, or the client's call for it failed.
EvaluatedLocally(k) ==
    sim._client = None \/ (Len(sim_calls) >= k /\ sim_calls[k].raised)

SimReturned == sim_pc = "done" /\ ~sim_raised

\* C15: in local evaluation a probe whose action no Allow statement lists
\* or wildcard-prefixes is Deny, and a probe whose action an Allow
\* statement lists, with a resource pattern that equals the probe's
\* resource or is a trailing-* prefix of it, is Allow.
C15_LocalDecision ==
    SimReturned =>
       \A i \in DOMAIN sim_out :
          /\ EvaluatedLocally(1) =>
                LocalDecisionAsClaimed(sim_in.before, sim_in.cases[i], sim_out[i].before)
          /\ EvaluatedLocally(2) =>
                LocalDecisionAsClaimed(sim_in.after, sim_in.cases[i], sim_out[i].after)

\* C15 witness: without a client, a document granting s3:GetObject over
\* arn:ex/bucket/* allowed the probe on arn:ex/bucket/a and denied the
\* s3:PutObject probe.
C15_Witness ==
    /\ SimReturned
    /\ sim._client = None
    /\ sim_in.before = PolicyDoc(<<SimStatement("Allow", <<"s3:GetObject">>, <<"arn:ex/bucket/*">>)>>)
    /\ Len(sim_in.cases) = 2
    /\ sim_in.cases[1] = SimulationCase("s3:GetObject", "arn:ex/bucket/a", NoneDict)
    /\ sim_in.cases[2].action = "s3:PutObject"
    /\ sim_out[1].before = "Allow"
    /\ sim_out[2].before = "Deny"

\* C16: with a client configured compare never raises; it calls the client
\* once for before and once for after, in that order and never again; a
\* document whose call failed gets the local evaluator's decisions; and
\* the rows are one per probe, in probe order.
C16_FallbackToLocal ==
    sim_pc = "done" =>
       /\ ~sim_raised
       /\ Len(sim_out) = Len(sim_in.cases)
       /\ \A i \in DOMAIN sim_out :
             /\ sim_out[i].action = sim_in.cases[i].action
             /\ sim_out[i].resource = sim_in.cases[i].resource
       /\ sim._client = None => sim_calls = <<>>
       /\ sim._client # None =>
             /\ Len(sim_calls) = 2
             /\ sim_calls[1].request.PolicyInputList[1].Statement = sim_in.before.statements
             /\ sim_calls[2].request.PolicyInputList[1].Statement = sim_in.after.statements
             /\ \A i \in DOMAIN sim_out :
                   /\ sim_calls[1].raised =>
                         sim_out[i].before = local_decision(sim_in.before, sim_in.cases[i])
                   /\ sim_calls[2].raised =>
                         sim_out[i].after = local_decision(sim_in.after, sim_in.cases[i])

\* C16 witness: the client's call for before failed and the one for after
\* answered; the first row's before decision is the local Allow.
C16_Witness ==
    /\ sim_pc = "done"
    /\ ~sim_raised
    /\ sim._client # None
    /\ Len(sim_calls) = 2
    /\ sim_calls[1].raised
    /\ ~sim_calls[2].raised
    /\ Len(sim_out) = 2
    /\ sim_out[1].before = "Allow"
    /\ sim_out[1].after = "Deny"

\* C23: in local evaluation a probe whose resource is the literal * matches
\* the resource part of every statement, so it is Allow whenever its action
\* matches an Allow statement; a statement with an empty resource list
\* matches no probe resource other than the literal *.
C23_WildcardProbe ==
    /\ SimReturned /\ EvaluatedLocally(1) =>
          \A i \in DOMAIN sim_out :
             (sim_in.cases[i].resource = "*" /\ SomeAllowedAction(sim_in.before, sim_in.cases[i]))
                => sim_out[i].before = "Allow"
    /\ \A i \in DOMAIN sim_in.cases :
          _resource_matches(sim_in.cases[i].resource, <<>>) <=> sim_in.cases[i].resource = "*"

(***************************************************************************)
(* Properties of the diff                                                  *)
(***************************************************************************)
\* The number of action entries over the statements of a document.
TotalActions(doc) ==
    LET partial[n \in 0..Len(doc.statements)] ==
            IF n = 0 THEN 0 ELSE partial[n - 1] + Len(doc.statements[n].actions)
    IN  partial[Len(doc.statements)]

\* The number of resource entries over the statements of a document.
TotalResources(doc) ==
    LET partial[n \in 0..Len(doc.statements)] ==
            IF n = 0 THEN 0 ELSE partial[n - 1] + Len(doc.statements[n].resources)
    IN  partial[Len(doc.statements)]

\* C17: statement delta is the number of statements of after minus that of
\* before, action delta the total of action entries of after minus that of
\* before; swapping before and after negates both, a document against
\* itself gives 0 for both, and 1 action against 0 gives -1.
C17_Deltas ==
    diff_pc = "done" =>
       LET swapped == PolicyDiff(diff.after, diff.before)
       IN  /\ diff_out.statementDelta = Len(diff.after.statements) - Len(diff.before.statements)
           /\ diff_out.allowedActionDelta = TotalActions(diff.after) - TotalActions(diff.before)
           /\ statement_delta(swapped) = 0 - diff_out.statementDelta
           /\ allowed_action_delta(swapped) = 0 - diff_out.allowedActionDelta
           /\ diff.before = diff.after =>
                 diff_out.statementDelta = 0 /\ diff_out.allowedActionDelta = 0
           /\ (TotalActions(diff.before) = 1 /\ TotalActions(diff.after) = 0) =>
                 diff_out.allowedActionDelta = -1

\* C17 witness: a before of two statements with three actions against an
\* after of one statement with one action: deltas -1 and -2.
C17_Witness ==
    /\ diff_pc = "done"
    /\ Len(diff.before.statements) = 2
    /\ Len(diff.after.statements) = 1
    /\ TotalActions(diff.before) = 3
    /\ TotalActions(diff.after) = 1
    /\ diff_out.statementDelta = -1
    /\ diff_out.allowedActionDelta = -2

\* C18: the resource reduction ratio lies in [0, 1]; it is 0 when before
\* has no resources and when after has at least as many as before; it is
\* exactly 1 when before has resources and after has none.
C18_RatioInUnitInterval ==
    diff_pc = "done" =>
       LET ratio == diff_out.resourceReductionRatio
           before_count == TotalResources(diff.before)
           after_count == TotalResources(diff.after)
       IN  /\ ratio.den > 0
           /\ 0 <= ratio.num
           /\ ratio.num <= ratio.den
           /\ before_count = 0 => ratio.num = 0
           /\ after_count >= before_count => ratio.num = 0
           /\ (before_count # 0 /\ after_count = 0) => ratio.num = ratio.den

\* C18 witness: a before with one resource against an after with three
\* gives 0, not a negative ratio.
C18_Witness ==
    /\ diff_pc = "done"
    /\ TotalResources(diff.before) = 1
    /\ TotalResources(diff.after) = 3
    /\ diff_out.resourceReductionRatio = FloatZero

\* The number of actions of service sv a document lists.
ServiceActionCount(doc, sv) ==
    LET at == { <<i, j>> \in (DOMAIN doc.statements) \X (1..2) :
                  /\ j \in DOMAIN doc.statements[i].actions
                  /\ split_service(doc.statements[i].actions[j]) = sv }
    IN  Cardinality(at)

\* before-count minus after-count of service sv.
Decrease(sv) == ServiceActionCount(diff.before, sv) - ServiceActionCount(diff.after, sv)

\* Entry a ranks before entry b: the larger decrease first, ties by name.
RanksBefore(a, b) ==
    \/ a.before - a.after > b.before - b.after
    \/ a.before - a.after = b.before - b.after /\ StrLess(a.service, b.service)

\* C24: the top-service-changes list holds only services whose action count
\* strictly decreased, has at most top-N entries, and is ordered by the
\* size of the decrease descending, ties alphabetically, so that truncation
\* keeps the largest decreases.
C24_TopServiceChanges ==
    diff_pc = "done" =>
       LET top == diff_out.topServiceChanges
       IN  /\ Len(top) <= diff_out.top_n
           /\ \A i \in DOMAIN top :
                 /\ top[i].before = ServiceActionCount(diff.before, top[i].service)
                 /\ top[i].after = ServiceActionCount(diff.after, top[i].service)
                 /\ top[i].before > top[i].after
           /\ \A i, j \in DOMAIN top : i < j => RanksBefore(top[i], top[j])
           /\ \A sv \in {"ec2", "s3"} :
                 (Decrease(sv) > 0 /\ \A i \in DOMAIN top : top[i].service # sv)
                    => /\ Len(top) = diff_out.top_n
                       /\ \A i \in DOMAIN top : top[i].before - top[i].after >= Decrease(sv)

(***************************************************************************)
(* Properties of the condition reducer                                     *)
(***************************************************************************)
\* a < b for two scalars of one kind: by value for the numerals of
\* non-negative ints, by code point for str.
ScalarLess(a, b) ==
    IF a.kind = "int" /\ Len(a.items[1]) # Len(b.items[1])
    THEN Len(a.items[1]) < Len(b.items[1])
    ELSE StrLess(a.items[1], b.items[1])

\* sorted({a, b}) for two different scalars of one kind.
SortedPair(a, b) ==
    IF ScalarLess(a, b) THEN <<a.items[1], b.items[1]>> ELSE <<b.items[1], a.items[1]>>

\* The value the claim gives an operator seen with existing, then with new.
ClaimedCombination(existing, new) ==
    IF existing.kind = "list" /\ new.kind = "list"
    THEN ListValue(SortedStrings(Elements(existing.items) \cup Elements(new.items)))
    ELSE IF existing.kind # "list" /\ new.kind = existing.kind
    THEN IF existing = new THEN existing
         ELSE ListValue(SortedPair(existing, new))
    ELSE new

\* The left-to-right fold of the claim, operator by operator.
ClaimedMerge(conditions) ==
    LET folded[n \in 0..Len(conditions)] ==
            IF n = 0 THEN EmptyDict
            ELSE [ op \in DOMAIN folded[n - 1] \cup DOMAIN conditions[n] |->
                     IF op \notin DOMAIN conditions[n] THEN folded[n - 1][op]
                     ELSE IF op \notin DOMAIN folded[n - 1] THEN conditions[n][op]
                     ELSE ClaimedCombination(folded[n - 1][op], conditions[n][op]) ]
    IN  folded[Len(conditions)]

\* C19: merge folds the maps left to right per operator: the first value
\* is taken as-is; on a collision two lists become the sorted union of
\* their elements, two equal scalars stay, two differing scalars become a
\* sorted two-element list, and any other combination keeps the later one.
C19_MergeFold == cond_pc = "done" => cond_out = ClaimedMerge(cond_in)

\* The positions of the maps that carry operator op.
MapsWith(op) == { n \in DOMAIN cond_in : op \in DOMAIN cond_in[n] }

\* C28: merge loses no observed scalar value: when every value of an
\* operator is a string scalar, the merged value of the operator contains
\* every distinct string observed for it, however many maps are merged.
C28_NoScalarLost ==
    cond_pc = "done" =>
       \A op \in DOMAIN cond_out :
          (\A n \in MapsWith(op) : cond_in[n][op].kind = "str")
             => \A n \in MapsWith(op) :
                   cond_in[n][op].items[1] \in Elements(cond_out[op].items)

(***************************************************************************)
(* Properties of the rule registry                                         *)
(***************************************************************************)
\* The extractors registered for the service of the event.
RulesForEvent ==
    IF arn_in.aws_service \in DOMAIN arn.service_rules
    THEN arn.service_rules[arn_in.aws_service] ELSE <<>>

\* What the extractors registered for the event's service return, together.
ExtractedTogether ==
    UNION { apply_extractor(RulesForEvent[i], arn_in) : i \in DOMAIN RulesForEvent }

\* C20: infer never returns the empty set; it returns {"*"} when the
\* event's service has no registered extractor or every extractor
\* registered for it returns nothing, and otherwise the union of what the
\* extractors registered for the service return.
C20_InferNeverEmpty ==
    arn_pc = "done" =>
       /\ arn_out # {}
       /\ IF ExtractedTogether = {} THEN arn_out = {"*"}
          ELSE arn_out = ExtractedTogether

\* C20 witness: for s3 the default extractor and a registered one were
\* combined: the bucket, the object and the registered identifier.
C20_Witness ==
    /\ arn_pc = "done"
    /\ arn_in.aws_service = "s3"
    /\ Len(RulesForEvent) = 2
    /\ arn_out = {"arn:aws:s3:::example", "arn:aws:s3:::example/object.txt", "arn:ex/custom"}

(***************************************************************************)
(* Properties of the diff command                                          *)
(***************************************************************************)
\* The number of rows of the written report whose column says Deny.
ReportedDenies(column) ==
    IF cli_report = <<>> THEN 0
    ELSE Cardinality({ i \in DOMAIN cli_report[1].cases :
                         IF column = "before" THEN cli_report[1].cases[i].before = "Deny"
                         ELSE cli_report[1].cases[i].after = "Deny" })

\* After denies more probes than before, beyond the threshold.
DeniesMoreBeyondThreshold ==
    LET d == ReportedDenies("before")
        a == ReportedDenies("after")
        t == cli_in.deny_threshold
    IN  /\ a > d
        /\ \/ d = 0
           \/ d > 0 /\ (a - d) * t.den > t.num * d

\* The format the report is written in.
ReportFormat ==
    IF cli_in.env.format # "" THEN cli_in.env.format ELSE cli_in.env.default_format

\* .iamlp-allow.json is absent, or it is complete, its expiresAt is not
\* before its createdAt, and it has not expired while CI is set.
AllowlistUsable ==
    LET f == cli_in.env.allowlist_file
    IN  \/ f.kind = "absent"
        \/ /\ f.kind = "object"
           /\ f.reason # "" /\ f.owner # ""
           /\ f.createdAt = "2025-01-01T00:00:00Z"
           /\ \/ f.expiresAt = "2999-01-01T00:00:00Z"
              \/ f.expiresAt = "2025-06-30T00:00:00Z" /\ ~cli_in.env.ci

\* C21 as stated: the diff command exits with 3 exactly when after denies
\* more probes than before beyond the threshold (before denies none and
\* after at least one, or the relative increase exceeds the threshold), with
\* 0 in every other case, and the report is written before the exit code is
\* returned.
C21_ExitThreeOrZero ==
    cli_exit # None =>
       /\ Len(cli_report) = 1
       /\ cli_exit = IF DeniesMoreBeyondThreshold THEN 3 ELSE 0

\* C21 amended: a diff command that runs to its end (the allowlist file is
\* usable and the format is supported) exits with 3 exactly when after
\* denies more probes than before beyond the threshold and with 0 otherwise,
\* the report being written before the exit code is returned; a command
\* whose allowlist file is not usable or whose format is not supported
\* writes no report and exits with 1.
C21_ExitCodeThree ==
    /\ cli_exit # None => cli_pc \in {"done", "failed"}
    /\ cli_pc = "done" =>
          /\ Len(cli_report) = 1
          /\ cli_exit = IF DeniesMoreBeyondThreshold THEN 3 ELSE 0
    /\ cli_pc \in {"emitted", "done"} =>
          /\ AllowlistUsable
          /\ ReportFormat \in {"json", "md", "table", "sarif"}
    /\ cli_pc = "failed" => cli_report = <<>> /\ cli_exit = 1
    /\ (cli_pc = "failed" /\ ~cli_in.boto3) =>
          \/ ~AllowlistUsable
          \/ ReportFormat \notin {"json", "md", "table", "sarif"}

\* C21 witness: the command returned 3 for no deny before and one after,
\* with the report written and its row waived by the allowlist file.
C21_Witness ==
    /\ cli_pc = "done"
    /\ cli_exit = 3
    /\ ReportedDenies("before") = 0
    /\ ReportedDenies("after") = 1
    /\ cli_report[1].summary.deny_change = 1
    /\ cli_in.env.allowlist_file.kind = "object"
    /\ "waived" \in DOMAIN cli_report[1].cases[1]

====
